---- MODULE Spec2Model ----
(***************************************************************************)
(* VillageGame: the game loop of the engine (src/src/game/engine.ts), the  *)
(* player (player.ts), the enemies (enemy.ts) and the two GameController   *)
(* sources of the repository:                                              *)
(*   "indexed"  src/src/game/gameController.ts  (keys 1/2 pick a type)     *)
(*   "cursor"   src/unnamed/part_001            (keys q/r move a cursor,   *)
(*                                               coins, heal, guards)      *)
(*                                                                         *)
(* Units.  Time is counted in tenths of a second (0.1 s), so 0.2 s, 0.5 s, *)
(* 1 s, 1.5 s, 2 s and 60 s are 2, 5, 10, 15, 20 and 600.  Lengths are     *)
(* counted in sixths of a pixel: an enemy's centre lies on half pixels     *)
(* (height 45) and one 60 Hz step of the player is 200/60 = 10/3 pixels.   *)
(***************************************************************************)
EXTENDS Integers, Sequences, FiniteSets, TLC

VARIABLES
    variant,       \* which GameController source is running
    player,        \* the Player object
    engine,        \* GameEngine: isRunning, lastFrameTime, cycle, cycleTime, villageHealth
    buildings,     \* GameEngine.buildings, in list order
    gameObjects,   \* ids in GameEngine.gameObjects (the entity registry)
    enemies,       \* GameController.enemies, in list order
    guards,        \* GameController.guards, in list order
    ctl,           \* GameController: keysPressed, mousePosition, waveNumber, buildMode, ...
    timers,        \* pending callbacks: wave and tick intervals, spawn and guard timeouts, frames
    enemyCounter,  \* enemy.ts module counter behind the enemy ids
    now,           \* time since page load
    obs,           \* observer: last operation, its return value, toasts, loss conditions
    hist,          \* observer: sums of deltas (clock, weapons)
    budget         \* how many inputs, start() calls and direct calls have been made

vars == << variant, player, engine, buildings, gameObjects, enemies, guards, ctl,
           timers, enemyCounter, now, obs, hist, budget >>

worldVars == << variant, engine, buildings, gameObjects, enemies, guards, ctl,
                timers, enemyCounter, now >>

----------------------------------------------------------------------------
(* Units and small helpers *)

SubPx == 2 * 3

Px(n) == n * SubPx

Max(a, b) == IF a >= b THEN a ELSE b

Min(a, b) == IF a <= b THEN a ELSE b

Abs(a) == IF a >= 0 THEN a ELSE -a

\* Math.floor(a / b) for b > 0
FloorDiv(a, b) == a \div b

\* a / b truncated toward zero, the lattice value of a floating-point quotient
QuotRound(a, b) == IF a >= 0 THEN a \div b ELSE -((-a) \div b)

RemoveAt(s, i) == [j \in 1..(Len(s) - 1) |-> IF j < i THEN s[j] ELSE s[j + 1]]

RECURSIVE IndexOf(_, _, _)
\* Array.prototype.indexOf from position i: 0 when absent
IndexOf(s, x, i) ==
    IF i > Len(s) THEN 0
    ELSE IF s[i] = x THEN i
    ELSE IndexOf(s, x, i + 1)

----------------------------------------------------------------------------
(* Player: src/src/game/player.ts *)

PlayerWidth == 32

PlayerHeight == 48

PlayerSpeed == 200

AttackAnimation == 2

StartingCoins == 50

StartingHealth == 100

\* this.weapons of the constructor
InitialWeapons ==
    << [id |-> "sword", damage |-> 10, range |-> Px(50), cooldown |-> 5, lastUsed |-> 0],
       [id |-> "bow", damage |-> 5, range |-> Px(200), cooldown |-> 10, lastUsed |-> 0] >>

\* this.buildings of the constructor: the catalogue of building templates
BuildingCatalog ==
    << [id |-> "defense-tower", name |-> "Defense Tower", cost |-> 25,
        type |-> "defense", hasDefense |-> TRUE, defense |-> 10, health |-> 100],
       [id |-> "resource-building", name |-> "Resource Building", cost |-> 40,
        type |-> "resource", hasDefense |-> FALSE, defense |-> 0, health |-> 80],
       [id |-> "wall", name |-> "Wall", cost |-> 15,
        type |-> "defense", hasDefense |-> TRUE, defense |-> 5, health |-> 150],
       [id |-> "guard-post", name |-> "Guard Post", cost |-> 60,
        type |-> "defense", hasDefense |-> TRUE, defense |-> 15, health |-> 120] >>

NewPlayer(x, y) ==
    [ id |-> << "player", 0 >>, x |-> x, y |-> y,
      width |-> Px(PlayerWidth), height |-> Px(PlayerHeight),
      direction |-> "right",
      weapons |-> InitialWeapons,
      currentWeapon |-> 0,
      isAttacking |-> FALSE,
      attackCooldown |-> 0,
      health |-> StartingHealth,
      maxHealth |-> StartingHealth,
      coins |-> StartingCoins,
      selectedBuildingIndex |-> 0 ]

\* weapons.forEach of Player.update
CoolWeapon(w, delta) ==
    IF w.lastUsed > 0
    THEN [w EXCEPT !.lastUsed = Max(0, w.lastUsed - delta)]
    ELSE w

Player_update(p, delta) ==
    LET cd == IF p.isAttacking THEN p.attackCooldown - delta ELSE p.attackCooldown
        att == IF p.isAttacking /\ cd <= 0 THEN FALSE ELSE p.isAttacking
    IN  [p EXCEPT !.attackCooldown = cd,
                  !.isAttacking = att,
                  !.weapons = [i \in 1..Len(p.weapons) |-> CoolWeapon(p.weapons[i], delta)]]

\* One 60 Hz step is speed * (1/60) pixels
StepLength == (PlayerSpeed * SubPx) \div 60

moveLeft(p) == [p EXCEPT !.x = p.x - StepLength, !.direction = "left"]

moveRight(p) == [p EXCEPT !.x = p.x + StepLength, !.direction = "right"]

getCurrentWeapon(p) == p.weapons[p.currentWeapon + 1]

\* Player.attack: the player afterwards and the value returned
attack(p) ==
    LET weapon == getCurrentWeapon(p)
    IN  IF weapon.lastUsed <= 0
        THEN [p |-> [p EXCEPT !.isAttacking = TRUE,
                              !.attackCooldown = AttackAnimation,
                              !.weapons[p.currentWeapon + 1].lastUsed = weapon.cooldown],
              ret |-> TRUE]
        ELSE [p |-> p, ret |-> FALSE]

switchWeapon(p) ==
    [p EXCEPT !.currentWeapon = (p.currentWeapon + 1) % Len(p.weapons)]

\* a faulty takeDamage without Math.max
Player_takeDamageUnclamped(p, amount) ==
    LET h == p.health - amount
    IN  [p |-> [p EXCEPT !.health = h], ret |-> (h <= 0)]

Player_takeDamage(p, amount) ==
    LET h == Max(0, p.health - amount)
    IN  [p |-> [p EXCEPT !.health = h], ret |-> (h <= 0)]

\* a faulty heal without Math.min
healUnbounded(p, amount) == [p EXCEPT !.health = p.health + amount]

heal(p, amount) == [p EXCEPT !.health = Min(p.maxHealth, p.health + amount)]

addCoins(p, amount) == [p EXCEPT !.coins = p.coins + amount]

\* a faulty useCoins that refuses to spend the last coin
useCoinsStrictly(p, amount) ==
    IF p.coins > amount
    THEN [p |-> [p EXCEPT !.coins = p.coins - amount], ret |-> TRUE]
    ELSE [p |-> p, ret |-> FALSE]

useCoins(p, amount) ==
    IF p.coins >= amount
    THEN [p |-> [p EXCEPT !.coins = p.coins - amount], ret |-> TRUE]
    ELSE [p |-> p, ret |-> FALSE]

getSelectedBuilding(p) == BuildingCatalog[p.selectedBuildingIndex + 1]

nextBuilding(p) ==
    [p EXCEPT !.selectedBuildingIndex =
        (p.selectedBuildingIndex + 1) % Len(BuildingCatalog)]

\* a faulty previousBuilding that stops at the first template
previousBuildingClamped(p) ==
    [p EXCEPT !.selectedBuildingIndex = Max(0, p.selectedBuildingIndex - 1)]

previousBuilding(p) ==
    [p EXCEPT !.selectedBuildingIndex =
        (p.selectedBuildingIndex - 1 + Len(BuildingCatalog)) % Len(BuildingCatalog)]

\* a faulty affordability test that lets every purchase through
AlwaysAffordable(p) == p.coins >= 0

canAffordCurrentBuilding(p) == p.coins >= getSelectedBuilding(p).cost

----------------------------------------------------------------------------
(* Enemy: src/src/game/enemy.ts *)

EnemyWidth == 30

EnemyHeight == 45

EnemyAttackCooldown == 10

\* ENEMY_TYPES; speed in pixels per second, animationSpeed in tenths per second
ENEMY_TYPES ==
    [ zombie   |-> [speed |-> 50, health |-> 30, damage |-> 5, isFlying |-> FALSE,
                    rewardCoins |-> 5, animationSpeed |-> 5],
      skeleton |-> [speed |-> 70, health |-> 20, damage |-> 7, isFlying |-> FALSE,
                    rewardCoins |-> 8, animationSpeed |-> 7],
      ghost    |-> [speed |-> 90, health |-> 15, damage |-> 10, isFlying |-> TRUE,
                    rewardCoins |-> 10, animationSpeed |-> 12],
      bat      |-> [speed |-> 110, health |-> 10, damage |-> 3, isFlying |-> TRUE,
                    rewardCoins |-> 7, animationSpeed |-> 15],
      slime    |-> [speed |-> 40, health |-> 45, damage |-> 6, isFlying |-> FALSE,
                    rewardCoins |-> 12, animationSpeed |-> 3],
      dragon   |-> [speed |-> 85, health |-> 100, damage |-> 15, isFlying |-> TRUE,
                    rewardCoins |-> 25, animationSpeed |-> 8] ]

\* new Enemy(x, y, type) with the counter at n; kind records the constructor's argument
NewEnemy(n, x, y, kind) ==
    LET config == ENEMY_TYPES[kind]
    IN  [ id |-> << "enemy", n >>, kind |-> kind, x |-> x, y |-> y,
          width |-> Px(EnemyWidth), height |-> Px(EnemyHeight),
          speed |-> config.speed, health |-> config.health, maxHealth |-> config.health,
          damage |-> config.damage, isFlying |-> config.isFlying,
          rewardCoins |-> config.rewardCoins, animationSpeed |-> config.animationSpeed,
          hasTarget |-> FALSE, target |-> [x |-> 0, y |-> 0],
          attackCooldown |-> 0, animationCounter |-> 0, animationFrame |-> 0 ]

RECURSIVE SqrtBetween(_, _, _)
\* the largest r in lo..hi with r * r <= n
SqrtBetween(n, lo, hi) ==
    IF lo >= hi THEN lo
    ELSE LET mid == (lo + hi + 1) \div 2
         IN  IF mid * mid <= n THEN SqrtBetween(n, mid, hi)
             ELSE SqrtBetween(n, lo, mid - 1)

\* Math.floor(Math.sqrt(n)) for 0 <= n < 2^31
ISqrt(n) == SqrtBetween(n, 0, 46340)

\* Math.sin(c * 2 * Math.PI) * 5 pixels for c hundredths, by Bhaskara's
\* approximation sin(h half-turn hundredths) = 4q / (3125 - q), q = h (50 - h)
Wave5(c) ==
    LET r == c % 100
        h == IF r < 50 THEN r ELSE r - 50
        q == h * (50 - h)
        v == (Px(5) * 4 * q) \div (3125 - q)
    IN  IF r < 50 THEN v ELSE -v

\* How far a number is scaled down before it is squared or multiplied
Scale(a) == (Abs(a) \div 30000) + 1

\* (d / distance) * speed * delta on the lattice, for the component d of (dx, dy)
StepToward(d, dx, dy, step) ==
    LET sd == Scale(Max(Abs(dx), Abs(dy)))
        ss == Scale(step)
        ax == QuotRound(dx, sd)
        ay == QuotRound(dy, sd)
        dist == ISqrt(ax * ax + ay * ay)
    IN  QuotRound(QuotRound(d, sd) * QuotRound(step, ss), dist) * ss

\* distance > 5, with the distance of (dx, dy) in sixths of a pixel
FartherThan5(dx, dy) ==
    \/ Abs(dx) > Px(5)
    \/ Abs(dy) > Px(5)
    \/ dx * dx + dy * dy > Px(5) * Px(5)

Enemy_update(e, delta) ==
    LET grown == e.animationCounter + delta * e.animationSpeed
        counter == IF grown >= 100 THEN 0 ELSE grown
        frame == IF grown >= 100 THEN (e.animationFrame + 1) % 4 ELSE e.animationFrame
        offsetY == IF e.isFlying THEN Wave5(counter) ELSE 0
        dx == e.target.x - (e.x + e.width \div 2)
        dy == e.target.y - (e.y + e.height \div 2) + offsetY
        step == (e.speed * delta * SubPx) \div 10
        moves == e.hasTarget /\ FartherThan5(dx, dy)
    IN  [e EXCEPT !.animationCounter = counter,
                  !.animationFrame = frame,
                  !.x = IF moves THEN e.x + StepToward(dx, dx, dy, step) ELSE e.x,
                  !.y = IF moves THEN e.y + StepToward(dy, dx, dy, step) ELSE e.y,
                  !.attackCooldown = IF e.attackCooldown > 0
                                     THEN e.attackCooldown - delta
                                     ELSE e.attackCooldown]

setTarget(e, x, y) == [e EXCEPT !.hasTarget = TRUE, !.target = [x |-> x, y |-> y]]

\* a faulty attack that is ready again after half the cooldown
Enemy_attackHasty(e) ==
    IF e.attackCooldown <= 0
    THEN [e |-> [e EXCEPT !.attackCooldown = EnemyAttackCooldown \div 2], ret |-> e.damage]
    ELSE [e |-> e, ret |-> 0]

\* Enemy.attack: the enemy afterwards and the damage returned
\* a faulty attack that is ready again at once
Enemy_attackTireless(e) ==
    IF e.attackCooldown <= 0
    THEN [e |-> e, ret |-> e.damage]
    ELSE [e |-> e, ret |-> 0]

Enemy_attack(e) ==
    IF e.attackCooldown <= 0
    THEN [e |-> [e EXCEPT !.attackCooldown = EnemyAttackCooldown], ret |-> e.damage]
    ELSE [e |-> e, ret |-> 0]

\* a faulty takeDamage that reports death only below zero
Enemy_takeDamageBelowZero(e, amount) ==
    LET h == Max(0, e.health - amount)
    IN  [e |-> [e EXCEPT !.health = h], ret |-> (e.health - amount < 0)]

Enemy_takeDamage(e, amount) ==
    LET h == Max(0, e.health - amount)
    IN  [e |-> [e EXCEPT !.health = h], ret |-> (h <= 0)]

getReward(e) == e.rewardCoins

----------------------------------------------------------------------------
(* Guard and GameEngine: src/src/game/engine.ts *)

GuardDamage == 5

GuardRange == 150

GuardAttackCooldown == 15

\* new Guard(x, y) at time t (the id is guard-<Date.now()>)
NewGuard(t, x, y) ==
    [ id |-> << "guard", t >>, x |-> x, y |-> y, width |-> Px(20), height |-> Px(30),
      damage |-> GuardDamage, range |-> Px(GuardRange),
      hasTarget |-> FALSE, targetEnemy |-> << "enemy", 0 >>, attackCooldown |-> 0 ]

Guard_update(g, delta) ==
    IF g.attackCooldown > 0
    THEN [g EXCEPT !.attackCooldown = g.attackCooldown - delta]
    ELSE g

Guard_setTarget(g, e) == [g EXCEPT !.hasTarget = TRUE, !.targetEnemy = e.id]

Guard_attack(g) ==
    IF g.attackCooldown <= 0
    THEN [g |-> [g EXCEPT !.attackCooldown = GuardAttackCooldown], ret |-> g.damage]
    ELSE [g |-> g, ret |-> 0]

CanvasWidth == 800

CanvasHeight == 600

CycleDuration == 600

NewBuilding(id, name, health, defense, type, x, y, width, height) ==
    [ id |-> id, name |-> name, health |-> health, defense |-> defense, type |-> type,
      x |-> x, y |-> y, width |-> width, height |-> height,
      hasTimer |-> FALSE, lastAction |-> 0, actionInterval |-> 0 ]

\* housePositions of setupVillage, relative to (centerX, centerY)
HouseOffsets ==
    << [x |-> -150, y |-> -80], [x |-> 80, y |-> -60], [x |-> -180, y |-> 50],
       [x |-> 120, y |-> 30], [x |-> -80, y |-> -120] >>

\* this.buildings after setupVillage: the village centre, then the five houses
setupVillage ==
    LET centerX == CanvasWidth \div 2
        centerY == CanvasHeight \div 2 + 100
    IN  << NewBuilding(<< "village-center", 0 >>, "Village Center", 200, 0, "main",
                       Px(centerX - 50), Px(centerY), Px(100), Px(80)) >>
        \o [i \in 1..Len(HouseOffsets) |->
               NewBuilding(<< "house", i - 1 >>, "Villager House", 100, 0, "house",
                           Px(centerX + HouseOffsets[i].x), Px(centerY + HouseOffsets[i].y),
                           Px(60), Px(50))]

\* the fields of a new GameEngine
NewEngine ==
    [ isRunning |-> FALSE, lastFrameTime |-> 0, cycle |-> "day", cycleTime |-> 0,
      villageHealth |-> 100 ]

getDayCycleInfo(e) == [cycle |-> e.cycle, progressNum |-> e.cycleTime, progressDen |-> CycleDuration]

getVillageHealth(e) == e.villageHealth

\* GameEngine.damageVillage(amount); nothing calls it
damageVillage(e, amount) ==
    LET h == Max(0, e.villageHealth - amount)
    IN  [e |-> [e EXCEPT !.villageHealth = h], ret |-> (h <= 0)]

\* a faulty updateDayCycle that changes the cycle only after cycleDuration is passed
updateDayCycleLate(e, delta) ==
    LET t == e.cycleTime + delta
    IN  IF t > CycleDuration
        THEN [e EXCEPT !.cycleTime = 0,
                       !.cycle = IF e.cycle = "day" THEN "night" ELSE "day"]
        ELSE [e EXCEPT !.cycleTime = t]

\* a faulty updateDayCycle that changes the cycle on every update
updateDayCycleEager(e, delta) ==
    [e EXCEPT !.cycleTime = 0, !.cycle = IF e.cycle = "day" THEN "night" ELSE "day"]

updateDayCycle(e, delta) ==
    LET t == e.cycleTime + delta
    IN  IF t >= CycleDuration
        THEN [e EXCEPT !.cycleTime = 0,
                       !.cycle = IF e.cycle = "day" THEN "night" ELSE "day"]
        ELSE [e EXCEPT !.cycleTime = t]

ResourceCoins == 5

\* a faulty test that lets lastAction reach actionInterval
GeneratesLate(b, delta) ==
    /\ b.type = "resource"
    /\ b.hasTimer
    /\ b.lastAction + delta > b.actionInterval

\* does updateBuildings dispatch 'resource-generated' for building b?
Generates(b, delta) ==
    /\ b.type = "resource"
    /\ b.hasTimer
    /\ b.lastAction + delta >= b.actionInterval

updateBuilding(b, delta) ==
    IF b.type = "resource" /\ b.hasTimer
    THEN [b EXCEPT !.lastAction = IF Generates(b, delta) THEN 0 ELSE b.lastAction + delta]
    ELSE b

\* GameEngine.update(delta) on the state s; the 'resource-generated' listener of
\* setupResourceGeneration (cursor controller only) runs inside dispatchEvent
update(s, delta) ==
    LET signals == Cardinality({i \in 1..Len(s.buildings) : Generates(s.buildings[i], delta)})
        credited == IF s.variant = "cursor" THEN addCoins(s.player, ResourceCoins * signals) ELSE s.player
    IN  [s EXCEPT
           !.engine = updateDayCycle(s.engine, delta),
           !.buildings = [i \in 1..Len(s.buildings) |-> updateBuilding(s.buildings[i], delta)],
           !.player = IF s.player.id \in s.gameObjects
                      THEN Player_update(credited, delta) ELSE credited,
           !.enemies = [i \in 1..Len(s.enemies) |->
                          IF s.enemies[i].id \in s.gameObjects
                          THEN Enemy_update(s.enemies[i], delta) ELSE s.enemies[i]],
           !.guards = [i \in 1..Len(s.guards) |->
                          IF s.guards[i].id \in s.gameObjects
                          THEN Guard_update(s.guards[i], delta) ELSE s.guards[i]]]

\* gameLoop(timestamp); render draws and changes nothing
gameLoop(s, timestamp) ==
    IF ~s.engine.isRunning THEN s
    ELSE LET delta == timestamp - s.engine.lastFrameTime
             u == update([s EXCEPT !.engine.lastFrameTime = timestamp], delta)
         IN  [u EXCEPT !.timers.raf = u.timers.raf + 1]

Engine_start(s) ==
    IF ~s.engine.isRunning
    THEN gameLoop([s EXCEPT !.engine.isRunning = TRUE], 0)
    ELSE s

Engine_stop(s) == [s EXCEPT !.engine.isRunning = FALSE]

\* a faulty removeGameObject that leaves the registry as it is
removeNothing(s, id) == s

addGameObject(s, id) == [s EXCEPT !.gameObjects = s.gameObjects \cup {id}]

removeGameObject(s, id) == [s EXCEPT !.gameObjects = s.gameObjects \ {id}]

addBuilding(s, b) == [s EXCEPT !.buildings = Append(s.buildings, b)]

----------------------------------------------------------------------------
(* GameController: src/src/game/gameController.ts ("indexed") and            *)
(* src/unnamed/part_001 ("cursor")                                           *)

WaveInterval == 600

SpawnStagger == 20

GuardDelay == 20

HealCost == 20

HealAmount == 25

ResourceInterval == 100

PlayerDied == "Player died! The village is lost!"

CenterDestroyed == "Village center destroyed! Game over!"

HealthDepleted == "Village health depleted! Game over!"

\* the state a handler works on: every variable the program owns, and the observer
Cur ==
    [ variant |-> variant, now |-> now, player |-> player, engine |-> engine,
      buildings |-> buildings, gameObjects |-> gameObjects, enemies |-> enemies,
      guards |-> guards, ctl |-> ctl, timers |-> timers, enemyCounter |-> enemyCounter,
      obs |-> obs ]

\* a toast; only the last one of an operation is kept
toast(s, text) == [s EXCEPT !.obs.note = text]

\* a faulty overlap test that counts a shared edge as an overlap
checkCollisionTouching(rect1, rect2) ==
    /\ rect1.x <= rect2.x + rect2.width
    /\ rect1.x + rect1.width >= rect2.x
    /\ rect1.y <= rect2.y + rect2.height
    /\ rect1.y + rect1.height >= rect2.y

checkCollision(rect1, rect2) ==
    /\ rect1.x < rect2.x + rect2.width
    /\ rect1.x + rect1.width > rect2.x
    /\ rect1.y < rect2.y + rect2.height
    /\ rect1.y + rect1.height > rect2.y

\* the constructor: engine, player in the middle of the screen, listeners and, in
\* the indexed controller, one more village centre
NewController(v) ==
    LET p == NewPlayer(Px(CanvasWidth \div 2 - 16), Px(CanvasHeight \div 2))
        centre == NewBuilding(<< "village-center", 0 >>, "Village Center", 200, 0, "main",
                              Px(CanvasWidth \div 2 - 50), Px(CanvasHeight \div 2 + 100),
                              Px(100), Px(80))
    IN  [ variant |-> v, now |-> 0, player |-> p, engine |-> NewEngine,
          buildings |-> IF v = "indexed" THEN Append(setupVillage, centre) ELSE setupVillage,
          gameObjects |-> {p.id},
          enemies |-> << >>, guards |-> << >>,
          ctl |-> [ keysPressed |-> {}, mousePosition |-> [x |-> 0, y |-> 0],
                    waveNumber |-> 0, buildMode |-> FALSE,
                    selectedBuildingType |-> "defense", gameOver |-> FALSE ],
          timers |-> [ wave |-> << >>, ticks |-> 0, spawn |-> << >>, guard |-> << >>,
                       raf |-> 0 ],
          enemyCounter |-> 0,
          obs |-> [ op |-> "new", key |-> "", arg |-> 0, ret |-> FALSE, wasOver |-> FALSE,
                    note |-> "", toasts |-> << >>, losses |-> << >> ] ]

\* a faulty endGame without the test of the gameOver flag
endGameAgain(s, message) ==
    Engine_stop([s EXCEPT !.ctl.gameOver = TRUE,
                          !.obs.toasts = Append(s.obs.toasts, message),
                          !.obs.note = message])

endGame(s, message) ==
    IF s.ctl.gameOver THEN s
    ELSE Engine_stop([s EXCEPT !.ctl.gameOver = TRUE,
                               !.obs.toasts = Append(s.obs.toasts, message),
                               !.obs.note = message])

\* a loss condition detected by the controller: the observer notes it, endGame is called
Lose(s, message) == endGame([s EXCEPT !.obs.losses = Append(s.obs.losses, message)], message)

\* spawnWave: one more wave-check interval and one more 60 Hz interval
spawnWave(s) ==
    [s EXCEPT !.timers.wave = Append(s.timers.wave, s.now + WaveInterval),
              !.timers.ticks = s.timers.ticks + 1]

start(s) == toast(spawnWave(Engine_start(s)), "Night is coming!")

\* a faulty stop that also cancels the spawn timeouts that are pending
stopCancels(s) == Engine_stop([s EXCEPT !.timers.spawn = << >>])

stop(s) == Engine_stop(s)

\* placeBuilding of the indexed controller
placeBuilding_indexed(s) ==
    LET width == Px(40)
        height == Px(40)
        defensive == s.ctl.selectedBuildingType = "defense"
        newBuilding ==
            NewBuilding(<< "building", s.now >>,
                        IF defensive THEN "Defense Tower" ELSE "Resource Building",
                        100, IF defensive THEN 10 ELSE 0, s.ctl.selectedBuildingType,
                        s.ctl.mousePosition.x - width \div 2,
                        s.ctl.mousePosition.y - height \div 2, width, height)
    IN  toast(addBuilding(s, newBuilding), "Placed")

\* placeBuilding of the cursor controller
placeBuilding_cursor(s) ==
    LET selectedBuilding == getSelectedBuilding(s.player)
        isPost == selectedBuilding.type = "guard-post"
        width == IF isPost THEN Px(50) ELSE Px(40)
        height == IF isPost THEN Px(60) ELSE Px(40)
        buildingX == s.ctl.mousePosition.x - width \div 2
        buildingY == s.ctl.mousePosition.y - height \div 2
        footprint == [x |-> buildingX, y |-> buildingY, width |-> width, height |-> height]
        paid == useCoins(s.player, selectedBuilding.cost).p
        plain == NewBuilding(<< "building", s.now >>, selectedBuilding.name,
                             selectedBuilding.health,
                             IF selectedBuilding.hasDefense THEN selectedBuilding.defense ELSE 0,
                             selectedBuilding.type, buildingX, buildingY, width, height)
        newBuilding == IF selectedBuilding.type = "resource"
                       THEN [plain EXCEPT !.hasTimer = TRUE, !.lastAction = 0,
                                          !.actionInterval = ResourceInterval]
                       ELSE plain
        guardTimer == [due |-> s.now + GuardDelay,
                       x |-> newBuilding.x + newBuilding.width \div 2,
                       y |-> newBuilding.y + newBuilding.height]
    IN  IF ~canAffordCurrentBuilding(s.player)
        THEN toast(s, "Not enough coins to place")
        ELSE IF \E i \in 1..Len(s.buildings) : checkCollision(footprint, s.buildings[i])
        THEN toast(s, "Cannot place building here")
        ELSE toast(addBuilding(
                      [s EXCEPT !.player = paid,
                                !.timers.guard = IF isPost THEN Append(s.timers.guard, guardTimer)
                                                 ELSE s.timers.guard],
                      newBuilding), "Placed")

placeBuilding(s) ==
    IF s.variant = "cursor" THEN placeBuilding_cursor(s) ELSE placeBuilding_indexed(s)

\* the guard-post timeout of placeBuilding (no template of the catalogue has the
\* type 'guard-post', so none is ever pending)
guardTimeout(s, t) ==
    LET guard == NewGuard(s.now, t.x, t.y)
    IN  toast(addGameObject([s EXCEPT !.guards = Append(s.guards, guard)], guard.id),
              "Guard spawned")

attackArea(p) ==
    LET weapon == getCurrentWeapon(p)
    IN  IF p.direction = "right"
        THEN [x |-> p.x + p.width, y |-> p.y, width |-> weapon.range, height |-> p.height]
        ELSE [x |-> p.x - weapon.range, y |-> p.y, width |-> weapon.range, height |-> p.height]

\* the body of the for-of loop of checkEnemyHits for the enemy at position i
hitEnemy(s, area, damage, i) ==
    LET hit == Enemy_takeDamage(s.enemies[i], damage)
        struck == [s EXCEPT !.enemies[i] = hit.e]
        rewarded == IF s.variant = "cursor"
                    THEN toast([struck EXCEPT !.player = addCoins(s.player, getReward(hit.e))],
                               "coins from defeated enemy")
                    ELSE struck
        index == IndexOf(rewarded.enemies, hit.e, 1)
    IN  IF ~checkCollision(area, s.enemies[i]) THEN s
        ELSE IF ~hit.ret THEN struck
        ELSE IF index = 0 THEN rewarded
        ELSE removeGameObject([rewarded EXCEPT !.enemies = RemoveAt(rewarded.enemies, index)],
                              hit.e.id)

RECURSIVE hitEnemiesFrom(_, _, _, _)
\* for (const enemy of this.enemies): the array iterator reads position i, then i + 1,
\* of the array as it is at that moment
hitEnemiesFrom(s, area, damage, i) ==
    IF i > Len(s.enemies) THEN s
    ELSE hitEnemiesFrom(hitEnemy(s, area, damage, i), area, damage, i + 1)

checkEnemyHits(s) ==
    hitEnemiesFrom(s, attackArea(s.player), getCurrentWeapon(s.player).damage, 1)

\* a faulty strikePlayer that turns the enemy's target to where the player stands
strikePlayerFollows(s, i) ==
    LET swing == Enemy_attack(setTarget(s.enemies[i], s.player.x, s.player.y))
        armed == [s EXCEPT !.enemies[i] = swing.e]
        hurt == Player_takeDamage(s.player, swing.ret)
        wounded == [armed EXCEPT !.player = hurt.p]
    IN  IF ~checkCollision(s.enemies[i], s.player) THEN s
        ELSE IF swing.ret <= 0 THEN armed
        ELSE IF hurt.ret THEN Lose(wounded, PlayerDied)
        ELSE wounded

\* updateEnemies, first half of the loop body: the enemy at position i and the player
strikePlayer(s, i) ==
    LET swing == Enemy_attack(s.enemies[i])
        armed == [s EXCEPT !.enemies[i] = swing.e]
        hurt == Player_takeDamage(s.player, swing.ret)
        wounded == [armed EXCEPT !.player = hurt.p]
    IN  IF ~checkCollision(s.enemies[i], s.player) THEN s
        ELSE IF swing.ret <= 0 THEN armed
        ELSE IF hurt.ret THEN Lose(wounded, PlayerDied)
        ELSE wounded

\* a faulty strikeBuilding that leaves a destroyed building in the list
strikeBuildingKeeps(s, i, j) ==
    LET swing == Enemy_attack(s.enemies[i])
        armed == [s EXCEPT !.enemies[i] = swing.e]
        building == [s.buildings[j] EXCEPT !.health = s.buildings[j].health - swing.ret]
    IN  IF swing.ret <= 0 THEN armed ELSE [armed EXCEPT !.buildings[j] = building]

\* a faulty strikeBuilding that ends the game whatever the building that was destroyed
strikeBuildingAnyEnds(s, i, j) ==
    LET swing == Enemy_attack(s.enemies[i])
        armed == [s EXCEPT !.enemies[i] = swing.e]
        building == [s.buildings[j] EXCEPT !.health = s.buildings[j].health - swing.ret]
        damaged == [armed EXCEPT !.buildings[j] = building]
    IN  IF swing.ret <= 0 THEN armed
        ELSE IF building.health > 0 THEN damaged
        ELSE Lose([damaged EXCEPT !.buildings = RemoveAt(damaged.buildings, j)], CenterDestroyed)

\* updateEnemies, the body of the inner loop once building j overlaps enemy i
\* a strikeBuilding that also takes the enemy's damage from the village's health
strikeBuildingHurtsVillage(s, i, j) ==
    LET swing == Enemy_attack(s.enemies[i])
        building == [s.buildings[j] EXCEPT !.health = s.buildings[j].health - swing.ret]
    IN  [s EXCEPT !.enemies[i] = swing.e,
                  !.buildings[j] = building,
                  !.engine = damageVillage(s.engine, swing.ret).e]

strikeBuilding(s, i, j) ==
    LET swing == Enemy_attack(s.enemies[i])
        armed == [s EXCEPT !.enemies[i] = swing.e]
        building == [s.buildings[j] EXCEPT !.health = s.buildings[j].health - swing.ret]
        damaged == [armed EXCEPT !.buildings[j] = building]
        index == IndexOf(damaged.buildings, building, 1)
        removed == [damaged EXCEPT !.buildings = RemoveAt(damaged.buildings, index)]
    IN  IF swing.ret <= 0 THEN armed
        ELSE IF building.health > 0 THEN damaged
        ELSE IF index = 0 THEN damaged
        ELSE IF building.type = "main" THEN Lose(removed, CenterDestroyed)
        ELSE toast(removed, "building destroyed")

RECURSIVE firstOverlap(_, _, _)
\* the first building from position j on that overlaps rect: 0 when none does
firstOverlap(bs, rect, j) ==
    IF j > Len(bs) THEN 0
    ELSE IF checkCollision(rect, bs[j]) THEN j
    ELSE firstOverlap(bs, rect, j + 1)

RECURSIVE updateEnemiesFrom(_, _)
updateEnemiesFrom(s, i) ==
    IF i > Len(s.enemies) THEN s
    ELSE LET afterPlayer == strikePlayer(s, i)
             j == firstOverlap(afterPlayer.buildings, afterPlayer.enemies[i], 1)
         IN  updateEnemiesFrom(IF j = 0 THEN afterPlayer ELSE strikeBuilding(afterPlayer, i, j),
                               i + 1)

updateEnemies(s) == updateEnemiesFrom(s, 1)

\* updateGuards with <= for < in the comparison of distances
NearerOrEqual(g, e, best) ==
    LET dx == e.x - g.x
        dy == e.y - g.y
    IN  /\ Abs(dx) <= g.range
        /\ Abs(dy) <= g.range
        /\ dx * dx + dy * dy <= best

\* is enemy e nearer to guard g than the squared distance best (a guard's range at most)?
Nearer(g, e, best) ==
    LET dx == e.x - g.x
        dy == e.y - g.y
    IN  /\ Abs(dx) < g.range
        /\ Abs(dy) < g.range
        /\ dx * dx + dy * dy < best

RECURSIVE nearestEnemy(_, _, _, _, _)
\* the inner loop of updateGuards: the position of the nearest enemy in range, 0 when none
nearestEnemy(g, es, i, best, found) ==
    IF i > Len(es) THEN found
    ELSE IF Nearer(g, es[i], best)
    THEN nearestEnemy(g, es, i + 1,
                      (es[i].x - g.x) * (es[i].x - g.x) + (es[i].y - g.y) * (es[i].y - g.y), i)
    ELSE nearestEnemy(g, es, i + 1, best, found)

\* the body of the loop of updateGuards for the guard at position k
updateGuard(s, k) ==
    LET g == s.guards[k]
        n == nearestEnemy(g, s.enemies, 1, g.range * g.range, 0)
        swing == Guard_attack(Guard_setTarget(g, s.enemies[n]))
        armed == [s EXCEPT !.guards[k] = swing.g]
        hit == Enemy_takeDamage(s.enemies[n], swing.ret)
        struck == [armed EXCEPT !.enemies[n] = hit.e]
    IN  IF n = 0 THEN s
        ELSE IF swing.ret <= 0 THEN armed
        ELSE IF ~hit.ret THEN struck
        ELSE removeGameObject([struck EXCEPT !.enemies = RemoveAt(struck.enemies, n)], hit.e.id)

RECURSIVE updateGuardsFrom(_, _)
updateGuardsFrom(s, k) ==
    IF k > Len(s.guards) THEN s
    ELSE updateGuardsFrom(updateGuard(s, k), k + 1)

updateGuards(s) == updateGuardsFrom(s, 1)

\* the held movement keys of checkVillageStatus
movePlayer(p, keys) ==
    LET up == IF "w" \in keys THEN [p EXCEPT !.y = p.y - StepLength] ELSE p
        down == IF "s" \in keys THEN [up EXCEPT !.y = up.y + StepLength] ELSE up
        left == IF "a" \in keys THEN moveLeft(down) ELSE down
    IN  IF "d" \in keys THEN moveRight(left) ELSE left

checkVillageStatus(s) ==
    LET moved == [s EXCEPT !.player = movePlayer(s.player, s.ctl.keysPressed)]
    IN  IF getVillageHealth(moved.engine) <= 0 THEN Lose(moved, HealthDepleted) ELSE moved

\* the 60 Hz interval of spawnWave
simulationTick(s) ==
    IF s.ctl.gameOver THEN s
    ELSE IF s.variant = "cursor"
    THEN checkVillageStatus(updateGuards(updateEnemies(s)))
    ELSE checkVillageStatus(updateEnemies(s))

\* a faulty count taken from the wave number as it was before the increment
enemyCountBefore(waveNumber) == 3 + FloorDiv(waveNumber - 1, 2)

enemyCountOf(waveNumber) == 3 + FloorDiv(waveNumber, 2)

RECURSIVE InsertSorted(_, _)
InsertSorted(seq, t) ==
    IF seq = << >> THEN << t >>
    ELSE IF t < Head(seq) THEN << t >> \o seq
    ELSE << Head(seq) >> \o InsertSorted(Tail(seq), t)

RECURSIVE scheduleSpawns(_, _, _, _)
\* setTimeout(() => this.spawnEnemy(), i * 2000) for i = from .. count - 1
scheduleSpawns(pending, t, from, count) ==
    IF from >= count THEN pending
    ELSE scheduleSpawns(InsertSorted(pending, t + from * SpawnStagger), t, from + 1, count)

\* a faulty wave check that goes on sending waves after the game is over
waveCheckOn(s) ==
    LET waveNumber == s.ctl.waveNumber + 1
        enemyCount == enemyCountOf(waveNumber)
    IN  IF getDayCycleInfo(s.engine).cycle = "night"
        THEN toast([s EXCEPT !.ctl.waveNumber = waveNumber,
                             !.timers.spawn = scheduleSpawns(s.timers.spawn, s.now, 0, enemyCount)],
                   "Wave incoming!")
        ELSE s

\* a faulty wave check that sends a wave by day as well
waveCheckDaily(s) ==
    LET waveNumber == s.ctl.waveNumber + 1
        enemyCount == enemyCountOf(waveNumber)
    IN  IF ~s.ctl.gameOver
        THEN toast([s EXCEPT !.ctl.waveNumber = waveNumber,
                             !.timers.spawn = scheduleSpawns(s.timers.spawn, s.now, 0, enemyCount)],
                   "Wave incoming!")
        ELSE s

\* the wave-check interval of spawnWave
waveCheck(s) ==
    LET waveNumber == s.ctl.waveNumber + 1
        enemyCount == enemyCountOf(waveNumber)
    IN  IF getDayCycleInfo(s.engine).cycle = "night" /\ ~s.ctl.gameOver
        THEN toast([s EXCEPT !.ctl.waveNumber = waveNumber,
                             !.timers.spawn = scheduleSpawns(s.timers.spawn, s.now, 0, enemyCount)],
                   "Wave incoming!")
        ELSE s

\* enemyTypes of spawnEnemy
enemyTypes(v, waveNumber) ==
    IF v = "indexed" THEN << "zombie", "skeleton", "ghost" >>
    ELSE << "zombie", "skeleton" >>
         \o (IF waveNumber >= 2 THEN << "ghost", "bat" >> ELSE << >>)
         \o (IF waveNumber >= 4 THEN << "slime" >> ELSE << >>)
         \o (IF waveNumber >= 6 THEN << "dragon" >> ELSE << >>)

\* the switch (edge) of spawnEnemy; along is Math.random() times the canvas side
spawnPoint(edge, along) ==
    CASE edge = 0 -> [x |-> along, y |-> Px(-50)]
      [] edge = 1 -> [x |-> Px(CanvasWidth + 50), y |-> along]
      [] edge = 2 -> [x |-> along, y |-> Px(CanvasHeight + 50)]
      [] edge = 3 -> [x |-> Px(-50), y |-> along]
      [] OTHER -> [x |-> Px(-50), y |-> Px(-50)]

\* spawnEnemy with the values Math.random() gives: c.edge in 0..3, c.along a place on
\* that edge, c.kind a position in enemyTypes, c.targetBuilding whether the 70 % draw
\* fell on a building, c.building a position in the building list
spawnEnemy(s, c) ==
    LET at == spawnPoint(c.edge, c.along)
        fresh == NewEnemy(s.enemyCounter, at.x, at.y, enemyTypes(s.variant, s.ctl.waveNumber)[c.kind])
        building == s.buildings[c.building]
        enemy == IF c.targetBuilding /\ Len(s.buildings) > 0
                 THEN setTarget(fresh, building.x + building.width \div 2,
                                building.y + building.height \div 2)
                 ELSE setTarget(fresh, s.player.x, s.player.y)
    IN  IF s.ctl.gameOver THEN s
        ELSE addGameObject([s EXCEPT !.enemies = Append(s.enemies, enemy),
                                     !.enemyCounter = s.enemyCounter + 1],
                           enemy.id)

\* the switch (e.key) of the keydown listener
keydown(s, key) ==
    LET held == [s EXCEPT !.ctl.keysPressed = s.ctl.keysPressed \cup {key}]
        swing == attack(held.player)
        swung == [held EXCEPT !.player = swing.p, !.obs.ret = swing.ret]
        inBuildMode == held.ctl.buildMode
    IN  CASE key = " " -> IF swing.ret THEN checkEnemyHits(swung) ELSE swung
          [] key = "e" -> toast([held EXCEPT !.player = switchWeapon(held.player)], "Switched")
          [] key = "b" -> toast([held EXCEPT !.ctl.buildMode = ~inBuildMode],
                                IF inBuildMode THEN "Build Mode: OFF" ELSE "Build Mode: ON")
          [] key = "1" /\ s.variant = "indexed" ->
                IF inBuildMode
                THEN toast([held EXCEPT !.ctl.selectedBuildingType = "defense"], "Selected")
                ELSE held
          [] key = "2" /\ s.variant = "indexed" ->
                IF inBuildMode
                THEN toast([held EXCEPT !.ctl.selectedBuildingType = "resource"], "Selected")
                ELSE held
          [] key = "q" /\ s.variant = "cursor" ->
                IF inBuildMode
                THEN toast([held EXCEPT !.player = previousBuilding(held.player)], "Selected")
                ELSE held
          [] key = "r" /\ s.variant = "cursor" ->
                IF inBuildMode
                THEN toast([held EXCEPT !.player = nextBuilding(held.player)], "Selected")
                ELSE held
          [] key = "h" /\ s.variant = "cursor" ->
                IF held.player.coins >= HealCost
                THEN toast([held EXCEPT !.player = heal(useCoins(held.player, HealCost).p,
                                                        HealAmount)],
                           "Healed")
                ELSE toast(held, "Not enough coins to heal")
          [] OTHER -> held

keyup(s, key) == [s EXCEPT !.ctl.keysPressed = s.ctl.keysPressed \ {key}]

mousemove(s, pos) == [s EXCEPT !.ctl.mousePosition = pos]

click(s) == IF s.ctl.buildMode THEN placeBuilding(s) ELSE s

----------------------------------------------------------------------------
(* The state machine *)

\* Bounds of the model
MaxWaits == 1

MaxStarts == 1

SiegeMaxStarts == 1

RestartMaxStarts == 2

MaxInputs == 3

MaxSpawns == 1

MaxMoves == 2

MaxCalls == 5

SiegeMaxWaits == 10

SiegeMaxSpawns == 7

Variants == {"indexed", "cursor"}

\* advance, flips, discarded: the deltas handed to GameEngine.update, the cycle changes
\* and the time above cycleDuration that the changes dropped.  Per weapon: used, it has
\* struck; since, the deltas handed to Player.update since it last struck; again, it has
\* struck twice; gap, what since was when it last struck again.  nightWaves, the waves
\* sent since the clock last turned to night; endedWith, what nightWaves was when the
\* clock last turned to day, -1 while no night has ended.  pendingAtStop, the spawn
\* timeouts that were pending when stop() was last called, -1 while it has not been.
\* tock changes with every tick that is observed.  Per enemy number: foeSince, for an enemy that has struck the player, the deltas handed
\* to GameEngine.update since it last did; foeGap, for one that has struck twice, what
\* foeSince was when it last struck again.
NoHistory == [advance |-> 0, flips |-> 0, discarded |-> 0,
              used |-> << FALSE, FALSE >>, since |-> << 0, 0 >>,
              again |-> << FALSE, FALSE >>, gap |-> << 0, 0 >>,
              nightWaves |-> 0, endedWith |-> -1, pendingAtStop |-> -1,
              foeSince |-> [n \in {} |-> 0], foeGap |-> [n \in {} |-> 0], tock |-> FALSE]

NoBudget == [inputs |-> 0, starts |-> 0, waits |-> 0, moves |-> 0, calls |-> 0]

Init ==
    \E v \in Variants :
        LET s == NewController(v)
        IN  /\ variant = v
            /\ now = 0
            /\ player = s.player
            /\ engine = s.engine
            /\ buildings = s.buildings
            /\ gameObjects = s.gameObjects
            /\ enemies = s.enemies
            /\ guards = s.guards
            /\ ctl = s.ctl
            /\ timers = s.timers
            /\ enemyCounter = s.enemyCounter
            /\ obs = s.obs
            /\ hist = NoHistory
            /\ budget = NoBudget

\* the state an operation starts from: the observer forgets the operation before
Begin(op, key, arg) ==
    [Cur EXCEPT !.obs.op = op, !.obs.key = key, !.obs.arg = arg, !.obs.ret = FALSE,
                !.obs.note = "", !.obs.wasOver = ctl.gameOver]

\* the state an operation leaves
Commit(s) ==
    /\ player' = s.player
    /\ engine' = s.engine
    /\ buildings' = s.buildings
    /\ gameObjects' = s.gameObjects
    /\ enemies' = s.enemies
    /\ guards' = s.guards
    /\ ctl' = s.ctl
    /\ timers' = s.timers
    /\ enemyCounter' = s.enemyCounter
    /\ obs' = s.obs
    /\ UNCHANGED variant

\* the observer's count of the waves of a night, after an operation that leaves state s
Watched(s) ==
    LET toNight == engine.cycle = "day" /\ s.engine.cycle = "night"
        toDay == engine.cycle = "night" /\ s.engine.cycle = "day"
    IN  [hist EXCEPT !.nightWaves = IF toNight THEN 0
                                    ELSE hist.nightWaves + (s.ctl.waveNumber - ctl.waveNumber),
                     !.endedWith = IF toDay THEN hist.nightWaves ELSE hist.endedWith]

\* the observer's sums of deltas, after an update with the delta given
Elapsed(h, delta) ==
    [h EXCEPT !.foeSince = [n \in DOMAIN h.foeSince |-> h.foeSince[n] + delta]]

\* the numbers of the enemies that strike the player in a tick: those that stand on the
\* player with their cooldown run out
Strikers ==
    IF ctl.gameOver THEN {}
    ELSE {enemies[i].id[2] : i \in {k \in 1..Len(enemies) :
                                      /\ checkCollision(enemies[k], player)
                                      /\ enemies[k].attackCooldown <= 0}}

\* the observer's sums of deltas, after a tick
Struck(h) ==
    LET before == DOMAIN h.foeSince
        again == Strikers \cap before
    IN  [h EXCEPT !.foeSince = [n \in before \cup Strikers |->
                                  IF n \in Strikers THEN 0 ELSE h.foeSince[n]],
                  !.foeGap = [n \in DOMAIN h.foeGap \cup again |->
                                IF n \in again THEN h.foeSince[n] ELSE h.foeGap[n]],
                  !.tock = ~h.tock]

\* GameController.start()
Start(limit) ==
    /\ budget.starts < limit
    /\ Commit(start(Begin("start", "", 0)))
    /\ budget' = [budget EXCEPT !.starts = budget.starts + 1]
    /\ UNCHANGED << now, hist >>

\* GameController.stop()
Stop ==
    /\ Commit(stop(Begin("stop", "", 0)))
    /\ hist' = [hist EXCEPT !.pendingAtStop = Len(timers.spawn)]
    /\ UNCHANGED << now, budget >>

\* d tenths of a second go by
TimePasses(d, limit) ==
    /\ budget.waits < limit
    /\ now' = now + d
    /\ budget' = [budget EXCEPT !.waits = budget.waits + 1]
    /\ UNCHANGED << variant, player, engine, buildings, gameObjects, enemies, guards, ctl,
                    timers, enemyCounter, obs, hist >>

\* one requestAnimationFrame callback runs gameLoop with the current time
Frame ==
    LET s == gameLoop([Begin("frame", "", 0) EXCEPT !.timers.raf = timers.raf - 1], now)
    IN  /\ timers.raf > 0
        /\ Commit(s)
        /\ hist' = Watched(s)
        /\ UNCHANGED << now, budget >>

\* the i-th wave-check interval is due
WaveTimer(i) ==
    LET s == waveCheck([Begin("wave", "", 0) EXCEPT
                           !.timers.wave[i] = timers.wave[i] + WaveInterval])
    IN  /\ timers.wave[i] <= now
        /\ Commit(s)
        /\ hist' = Watched(s)
        /\ UNCHANGED << now, budget >>

MoveKeys == {"w", "a", "s", "d"}

\* a 60 Hz interval fires; a tick that moves the player uses up one move
SimulationTick ==
    LET moving == ~ctl.gameOver /\ ctl.keysPressed \cap MoveKeys # {}
    IN  /\ timers.ticks > 0
        /\ moving => budget.moves < MaxMoves
        /\ Commit(simulationTick(Begin("tick", "", 0)))
        /\ budget' = [budget EXCEPT !.moves = IF moving THEN budget.moves + 1 ELSE budget.moves]
        /\ UNCHANGED << now, hist >>

\* the earliest spawn timeout is due and runs spawnEnemy with the random draws c
SpawnTimer(c, limit) ==
    /\ timers.spawn # << >>
    /\ Head(timers.spawn) <= now
    /\ ctl.gameOver \/ enemyCounter < limit
    /\ Commit(spawnEnemy([Begin("spawn", "", 0) EXCEPT !.timers.spawn = Tail(timers.spawn)], c))
    /\ UNCHANGED << now, hist, budget >>

\* a movement key goes down and stays down (the browser repeats keydown while it is held)
KeyDown(key, limit) ==
    /\ budget.inputs < limit
    /\ Commit(keydown(Begin("keydown", key, 0), key))
    /\ budget' = [budget EXCEPT !.inputs = budget.inputs + 1]
    /\ UNCHANGED << now, hist >>

KeyUp(key, limit) ==
    /\ budget.inputs < limit
    /\ key \in ctl.keysPressed
    /\ Commit(keyup(Begin("keyup", key, 0), key))
    /\ budget' = [budget EXCEPT !.inputs = budget.inputs + 1]
    /\ UNCHANGED << now, hist >>

\* a command key is struck: keydown, then keyup.  Nothing reads keysPressed for a
\* command key, so no callback that runs between the two events can tell them apart.
KeyPress(key, limit) ==
    /\ budget.inputs < limit
    /\ Commit(keyup(keydown(Begin("keypress", key, 0), key), key))
    /\ budget' = [budget EXCEPT !.inputs = budget.inputs + 1]
    /\ UNCHANGED << now, hist >>

MouseMove(pos, limit) ==
    /\ budget.inputs < limit
    /\ pos # ctl.mousePosition
    /\ Commit(mousemove(Begin("mousemove", "", 0), pos))
    /\ budget' = [budget EXCEPT !.inputs = budget.inputs + 1]
    /\ UNCHANGED << now, hist >>

Click(limit) ==
    /\ budget.inputs < limit
    /\ Commit(click(Begin("click", "", 0)))
    /\ budget' = [budget EXCEPT !.inputs = budget.inputs + 1]
    /\ UNCHANGED << now, hist >>

\* The inputs the full game is run with
TimeSteps == {10, 600}

HeldKeys == {"a"}

CommandKeys == {" ", "e", "b", "q", "r", "h", "2"}

\* the corner of the canvas, the village centre, and a place beside the player
MousePositions == { [x |-> Px(400), y |-> Px(440)], [x |-> Px(100), y |-> Px(100)] }

\* Math.random() in spawnEnemy: top and left edge, a place from which the enemy walks
\* straight down to the player, the first or last type, the player or the first or
\* last building as the target
SpawnChoices ==
    { [edge |-> e, along |-> Px(369), kind |-> k, targetBuilding |-> tb, building |-> b] :
        e \in {0}, k \in {1, Len(enemyTypes(variant, ctl.waveNumber))},
        tb \in BOOLEAN, b \in {1} }

Next ==
    \/ Start(MaxStarts)
    \/ Stop
    \/ \E d \in TimeSteps : TimePasses(d, MaxWaits)
    \/ Frame
    \/ \E i \in DOMAIN timers.wave : WaveTimer(i)
    \/ SimulationTick
    \/ \E c \in SpawnChoices : SpawnTimer(c, MaxSpawns)
    \/ \E k \in HeldKeys : KeyDown(k, MaxInputs)
    \/ \E k \in HeldKeys : KeyUp(k, MaxInputs)
    \/ \E k \in CommandKeys : KeyPress(k, MaxInputs)
    \/ \E pos \in MousePositions : MouseMove(pos, MaxInputs)
    \/ Click(MaxInputs)

Spec == Init /\ [][Next]_vars

----------------------------------------------------------------------------
(* Building: the keyboard, the mouse and placeBuilding alone *)

MaxBuildInputs == 5

BuildKeys == {"b", "q", "r", "h", "2"}

NextBuild ==
    \/ \E k \in BuildKeys : KeyPress(k, MaxBuildInputs)
    \/ \E pos \in MousePositions : MouseMove(pos, MaxBuildInputs)
    \/ Click(MaxBuildInputs)

SpecBuild == Init /\ [][NextBuild]_vars

\* the square a click proposes: 40 by 40 pixels around the mouse position
ProposedFootprint ==
    [ x |-> ctl.mousePosition.x - Px(20), y |-> ctl.mousePosition.y - Px(20),
      width |-> Px(40), height |-> Px(40) ]

Overlapping == \E i \in 1..Len(buildings) : checkCollision(ProposedFootprint, buildings[i])

PlacementAttempt == obs'.op = "click" /\ ctl.buildMode

NothingPlaced ==
    /\ buildings' = buildings
    /\ player' = player
    /\ timers'.guard = timers.guard

\* C8: a placement attempt whose footprint strictly overlaps an existing building is
\* rejected, whether or not the player can afford the building: the building list, the
\* coins and the pending guard spawns stay as they were.
C8OverlapRejected == [][(PlacementAttempt /\ Overlapping) => NothingPlaced]_vars

\* C9: an action the player cannot pay for changes nothing: healing with fewer than 20
\* coins leaves coins and health as they were, and a placement attempt with fewer coins
\* than the selected template costs leaves the coins and the building list as they were.
C9UnaffordableRejected ==
    [][ /\ (obs'.op = "keypress" /\ obs'.key = "h" /\ player.coins < HealCost)
            => (player' = player /\ buildings' = buildings)
        /\ (PlacementAttempt /\ player.coins < getSelectedBuilding(player).cost)
            => NothingPlaced ]_vars

\* the heal key was struck with 10 coins left after a purchase, and was refused
C9HealRefused ==
    /\ obs.op = "keypress" /\ obs.key = "h"
    /\ obs.note = "Not enough coins to heal"
    /\ player.coins < HealCost
    /\ Len(buildings) > Len(setupVillage)

\* C10: a placement attempt that overlaps no building, by a player who can pay the
\* selected template, takes exactly the template's cost from the coins and appends
\* exactly one building with the template's health, category and defense.
C10PlacementEffects ==
    [][ LET template == getSelectedBuilding(player)
            placed == buildings'[Len(buildings')]
        IN  (PlacementAttempt /\ ~Overlapping /\ player.coins >= template.cost)
            => /\ player'.coins = player.coins - template.cost
               /\ Len(buildings') = Len(buildings) + 1
               /\ SubSeq(buildings', 1, Len(buildings)) = buildings
               /\ placed.health = template.health
               /\ placed.type = template.type
               /\ placed.defense = (IF template.hasDefense THEN template.defense ELSE 0)
      ]_vars

----------------------------------------------------------------------------
(* The Player object alone: its methods called in any order *)

\* the deltas of Player.update; a delta below zero is what gameLoop(0) hands down when
\* the engine is started again after frames have run
PlayerDeltas == {-5, 2, 5, 10}

DamageAmounts == {7, 120}

HealAmounts == {25}

CoinAmounts == {20, 50, 60}

\* a call of a Player method: the world stays as it is
Call(op, arg, p, ret) ==
    /\ budget.calls < MaxCalls
    /\ player' = p
    /\ obs' = [obs EXCEPT !.op = op, !.key = "", !.arg = arg, !.ret = ret, !.note = "",
                          !.wasOver = ctl.gameOver]
    /\ budget' = [budget EXCEPT !.calls = budget.calls + 1]
    /\ UNCHANGED worldVars

CallUpdate(delta) ==
    /\ Call("update", delta, Player_update(player, delta), FALSE)
    /\ hist' = [hist EXCEPT !.since = [w \in 1..2 |-> IF hist.used[w]
                                                     THEN hist.since[w] + delta
                                                     ELSE hist.since[w]]]

CallAttack ==
    LET r == attack(player)
        w == player.currentWeapon + 1
    IN  /\ Call("attack", 0, r.p, r.ret)
        /\ hist' = IF r.ret
                   THEN [hist EXCEPT !.used[w] = TRUE, !.since[w] = 0,
                                     !.again[w] = hist.used[w],
                                     !.gap[w] = IF hist.used[w] THEN hist.since[w]
                                                ELSE hist.gap[w]]
                   ELSE hist

CallSwitchWeapon == Call("switchWeapon", 0, switchWeapon(player), FALSE) /\ UNCHANGED hist

CallTakeDamage(amount) ==
    LET r == Player_takeDamage(player, amount)
    IN  Call("takeDamage", amount, r.p, r.ret) /\ UNCHANGED hist

CallHeal(amount) == Call("heal", amount, heal(player, amount), FALSE) /\ UNCHANGED hist

CallAddCoins(amount) ==
    Call("addCoins", amount, addCoins(player, amount), FALSE) /\ UNCHANGED hist

CallUseCoins(amount) ==
    LET r == useCoins(player, amount)
    IN  Call("useCoins", amount, r.p, r.ret) /\ UNCHANGED hist

CallNextBuilding == Call("nextBuilding", 0, nextBuilding(player), FALSE) /\ UNCHANGED hist

CallPreviousBuilding ==
    Call("previousBuilding", 0, previousBuilding(player), FALSE) /\ UNCHANGED hist

CallMoveLeft == Call("moveLeft", 0, moveLeft(player), FALSE) /\ UNCHANGED hist

CallMoveRight == Call("moveRight", 0, moveRight(player), FALSE) /\ UNCHANGED hist

NextPlayer ==
    \/ \E delta \in PlayerDeltas : CallUpdate(delta)
    \/ CallAttack
    \/ CallSwitchWeapon
    \/ \E amount \in DamageAmounts : CallTakeDamage(amount)
    \/ \E amount \in HealAmounts : CallHeal(amount)
    \/ \E amount \in CoinAmounts : CallAddCoins(amount)
    \/ \E amount \in CoinAmounts : CallUseCoins(amount)
    \/ CallNextBuilding
    \/ CallPreviousBuilding
    \/ CallMoveLeft
    \/ CallMoveRight

SpecPlayer == Init /\ [][NextPlayer]_vars

\* C6: between two successful attacks with one weapon, the deltas handed to
\* Player.update add up to at least the weapon's cooldown (sword 0.5 s, bow 1.0 s), and
\* an attack made while the weapon's timer is above zero returns false and changes
\* nothing.
C6AttackCooldown ==
    /\ [](\A w \in 1..Len(player.weapons) :
            hist.again[w] => hist.gap[w] >= player.weapons[w].cooldown)
    /\ [][(obs'.op = "attack" /\ getCurrentWeapon(player).lastUsed > 0)
            => (player' = player /\ ~obs'.ret)]_vars

\* C7: useCoins(n) returns true exactly when coins >= n held beforehand; then coins go
\* down by exactly n, otherwise they stay as they were, and nothing else of the player
\* changes.
C7UseCoins ==
    [][ obs'.op = "useCoins"
        => LET n == obs'.arg
           IN  /\ obs'.ret = (player.coins >= n)
               /\ player' = [player EXCEPT !.coins = IF player.coins >= n
                                                     THEN player.coins - n
                                                     ELSE player.coins] ]_vars

\* useCoins has just refused: the coins are fewer than were asked for
C7Refused == obs.op = "useCoins" /\ ~obs.ret /\ player.coins < obs.arg /\ player.coins > 0

----------------------------------------------------------------------------
(* The world clock alone: GameEngine.update called with deltas of zero or more *)

MaxUpdates == 5

ClockDeltas == {0, 1, 250, 599, 600, 700}

EngineUpdate(delta) ==
    LET s == update(Begin("update", "", delta), delta)
        t == engine.cycleTime + delta
        flipped == s.engine.cycle # engine.cycle
    IN  /\ budget.calls < MaxUpdates
        /\ Commit(s)
        /\ hist' = [hist EXCEPT !.advance = hist.advance + delta,
                                !.flips = IF flipped THEN hist.flips + 1 ELSE hist.flips,
                                !.discarded = IF flipped
                                              THEN hist.discarded + (t - CycleDuration)
                                              ELSE hist.discarded]
        /\ budget' = [budget EXCEPT !.calls = budget.calls + 1]
        /\ UNCHANGED now

NextClock == \E delta \in ClockDeltas : EngineUpdate(delta)

SpecClock == Init /\ [][NextClock]_vars

\* C4: after every update with a delta of zero or more, 0 <= cycleTime < cycleDuration,
\* and the progress that getDayCycleInfo exposes, cycleTime / cycleDuration, is in [0, 1).
C4ClockInRange ==
    LET info == getDayCycleInfo(engine)
    IN  /\ 0 <= engine.cycleTime
        /\ engine.cycleTime < CycleDuration
        /\ info.progressDen > 0
        /\ 0 <= info.progressNum
        /\ info.progressNum < info.progressDen

\* an update has just carried the clock over the end of a cycle, to zero
C4WrappedAround ==
    /\ obs.op = "update" /\ obs.arg > 0
    /\ hist.flips > 0
    /\ hist.discarded > 0
    /\ engine.cycleTime = 0

\* C5 as stated: after a total advance of T the cycle has changed floor(T / cycleDuration)
\* times, whatever the sizes of the deltas.
C5FlipsPerDuration == hist.flips = hist.advance \div CycleDuration

\* C5, amended: the cycle changes in the update that brings the time since the last
\* change to cycleDuration or more, once however large the delta, and the time above
\* cycleDuration is dropped; so the changes number floor((T - dropped) / cycleDuration),
\* which is at most floor(T / cycleDuration) and equal to it when nothing was dropped.
C5FlipsDropExcess ==
    /\ hist.discarded >= 0
    /\ hist.advance = hist.flips * CycleDuration + hist.discarded + engine.cycleTime
    /\ hist.flips = (hist.advance - hist.discarded) \div CycleDuration
    /\ hist.flips <= hist.advance \div CycleDuration
    /\ hist.discarded = 0 => hist.flips = hist.advance \div CycleDuration

\* two cycles' worth of time has gone by in updates and the cycle has changed once
C5FlipLost ==
    /\ hist.advance >= 2 * CycleDuration
    /\ hist.flips = 1
    /\ hist.discarded > 0

----------------------------------------------------------------------------
(* The siege: a night in a foreground tab, where skeletons walk up to the player and
   strike until the game is over.  The game is started as the page loads, and timers
   and frames are punctual: no time goes by while a wave check, a spawn or the frame
   of a running engine is due. *)

\* the day goes by in one step, the night in steps of two seconds; once the game is
\* over the next step is a minute, which brings the next wave check
SiegeStep == IF engine.cycle = "day" \/ ctl.gameOver THEN CycleDuration ELSE 20

\* every enemy is a skeleton that enters at the top edge, 420 pixels from the player
SiegeSpawnChoices ==
    { [edge |-> 0, along |-> Px(106), kind |-> 2, targetBuilding |-> FALSE, building |-> 1] }

Punctual ==
    /\ timers.ticks > 0
    /\ \A i \in DOMAIN timers.wave : timers.wave[i] > now
    /\ IF timers.spawn = << >> THEN TRUE
       ELSE Head(timers.spawn) > now \/ (~ctl.gameOver /\ enemyCounter >= SiegeMaxSpawns)
    /\ engine.isRunning => engine.lastFrameTime = now

NextSiege(starts) ==
    \/ Start(starts)
    \/ Punctual /\ TimePasses(SiegeStep, SiegeMaxWaits)
    \/ Frame
    \/ \E i \in DOMAIN timers.wave : WaveTimer(i)
    \/ SimulationTick
    \/ \E c \in SiegeSpawnChoices : SpawnTimer(c, SiegeMaxSpawns)

SpecSiege == Init /\ [][NextSiege(SiegeMaxStarts)]_vars

\* the siege with a second call of start(), which may come after the game is over
SpecRestart == Init /\ [][NextSiege(RestartMaxStarts)]_vars

\* C1: the controller enters gameOver at most once.  Only the first call of endGame
\* has an effect; later calls, also those for further loss conditions detected in the same
\* tick, change nothing: one terminal message is ever emitted, that of the first loss
\* condition detected, and it is there exactly when the game is over.
C1GameOverOnce ==
    /\ Len(obs.toasts) <= 1
    /\ ctl.gameOver = (obs.toasts # << >>)
    /\ ctl.gameOver = (obs.losses # << >>)
    /\ obs.losses # << >> => obs.toasts = << obs.losses[1] >>

\* one tick has detected the player's death more than once
C1SeveralLosses ==
    /\ obs.op = "tick"
    /\ Len(obs.losses) >= 2
    /\ player.health = 0

\* C2: gameOver is terminal.  Once the flag is set no operation clears it, the engine
\* does not run again and its frame loop makes no further iteration.
C2GameOverTerminal ==
    [][ctl.gameOver => /\ ctl'.gameOver
                       /\ ~engine'.isRunning
                       /\ engine'.lastFrameTime = engine.lastFrameTime]_vars

----------------------------------------------------------------------------
(* The overlap test alone: checkCollision applied to any two rectangles of a small
   lattice, whose sides are one unit or more *)

MaxOrigin == 2

MaxSide == 2

Rectangles ==
    { [x |-> x, y |-> y, width |-> w, height |-> h] :
        x \in 0..MaxOrigin, y \in 0..MaxOrigin, w \in 1..MaxSide, h \in 1..MaxSide }

\* one call per behaviour: the test keeps no state, so a second call shows nothing new
CallCheckCollision(rect1, rect2) ==
    /\ obs.op = "new"
    /\ obs' = [obs EXCEPT !.op = "checkCollision", !.key = "", !.arg = << rect1, rect2 >>,
                          !.ret = checkCollision(rect1, rect2), !.note = "",
                          !.wasOver = ctl.gameOver]
    /\ UNCHANGED << player, worldVars, hist, budget >>

NextCollision == \E rect1 \in Rectangles, rect2 \in Rectangles : CallCheckCollision(rect1, rect2)

SpecCollision == Init /\ [][NextCollision]_vars

\* the lattice points of a rectangle, its boundary included
Points(r) == (r.x .. r.x + r.width) \X (r.y .. r.y + r.height)

\* the unit squares inside a rectangle, each named by its lower corner
Cells(r) == (r.x .. r.x + r.width - 1) \X (r.y .. r.y + r.height - 1)

\* two rectangles that meet in an edge or a corner and share no area
Touching(r1, r2) == Points(r1) \cap Points(r2) # {} /\ Cells(r1) \cap Cells(r2) = {}

\* C11: checkCollision is symmetric, checkCollision(A, B) = checkCollision(B, A) for
\* rectangles of positive width and height; it is true exactly when the two share some
\* area, so it is false for two rectangles that share only an edge or a corner.
C11CollisionSymmetric ==
    obs.op = "checkCollision"
    => LET rect1 == obs.arg[1]
           rect2 == obs.arg[2]
       IN  /\ obs.ret = checkCollision(rect2, rect1)
           /\ obs.ret = (Cells(rect1) \cap Cells(rect2) # {})
           /\ Touching(rect1, rect2) => ~obs.ret

\* two rectangles that share one corner point have been tested, and do not collide
C11CornerTouch ==
    /\ obs.op = "checkCollision"
    /\ Cardinality(Points(obs.arg[1]) \cap Points(obs.arg[2])) = 1
    /\ ~obs.ret

----------------------------------------------------------------------------
(* Wave checks *)

\* how often the due time t stands in a list of pending timeouts
Occurrences(pending, t) == Cardinality({k \in DOMAIN pending : pending[k] = t})

\* after holds what before held and n more timeouts, due at t0, t0 + 2 s, t0 + 4 s, ...
ScheduledAt(before, after, t0, n) ==
    /\ Len(after) = Len(before) + n
    /\ \A i \in 0..(n - 1) :
          Occurrences(after, t0 + i * SpawnStagger)
              = Occurrences(before, t0 + i * SpawnStagger) + 1
    /\ \A k \in DOMAIN before : Occurrences(after, before[k]) >= Occurrences(before, before[k])

\* a step of the wave-check interval: the interval that fired is due again a minute on
WaveCheckStep == obs'.op = "wave" /\ timers'.wave # timers.wave

\* C12: a wave check changes the state exactly when it is night and the game is not
\* over: then the wave number goes up by one and 3 + floor(waveNumber / 2) spawns, of the
\* new wave number, are scheduled 0 s, 2 s, 4 s, ... from now; otherwise the wave number
\* stays and nothing is scheduled.  The wave number never goes down in any step.
C12WaveCheck ==
    [][ /\ ctl'.waveNumber >= ctl.waveNumber
        /\ WaveCheckStep
            => /\ << player', engine', buildings', enemies', guards', gameObjects',
                     enemyCounter', timers'.guard >>
                    = << player, engine, buildings, enemies, guards, gameObjects,
                         enemyCounter, timers.guard >>
               /\ IF engine.cycle = "night" /\ ~ctl.gameOver
                  THEN /\ ctl' = [ctl EXCEPT !.waveNumber = ctl.waveNumber + 1]
                       /\ ScheduledAt(timers.spawn, timers'.spawn, now,
                                      3 + (ctl.waveNumber + 1) \div 2)
                  ELSE /\ ctl' = ctl
                       /\ timers'.spawn = timers.spawn ]_vars

\* the first wave check of a night has sent wave 1: three spawns are pending
C12FirstWaveSent ==
    /\ obs.op = "wave"
    /\ engine.cycle = "night"
    /\ ~ctl.gameOver
    /\ ctl.waveNumber = 1
    /\ timers.spawn = << now, now + SpawnStagger, now + 2 * SpawnStagger >>

----------------------------------------------------------------------------
(* The nights: the wave-check interval and the frame loop over several cycles.  The
   interval is punctual; a frame may come late or not at all, as in a tab that is in
   the background, and then brings the clock one delta for all the time gone by.
   Spawn timeouts stay pending: a wave check reads neither them nor the enemies. *)

WavesMaxWaits == 12

\* half a cycle goes by in one step
WavesStep == CycleDuration \div 2

WaveChecksDone == \A i \in DOMAIN timers.wave : timers.wave[i] > now

NextWaves ==
    \/ Start(MaxStarts)
    \/ WaveChecksDone /\ TimePasses(WavesStep, WavesMaxWaits)
    \/ Frame
    \/ \E i \in DOMAIN timers.wave : WaveTimer(i)

SpecWaves == Init /\ [][NextWaves]_vars

\* a wave check that sends a wave: it is night and the game is not over
SendsWave == WaveCheckStep /\ engine.cycle = "night" /\ ~ctl.gameOver

\* the enemy count of a wave check: the spawns it adds to the pending ones
EnemyCount == Len(timers'.spawn) - Len(timers.spawn)

\* C13 as stated: a wave check made at night when the wave number is 0 sends the first
\* wave with 3 enemies, and one made at night when the wave number is 5 has an enemy
\* count of 5.
C13WaveCounts ==
    [][SendsWave => /\ ctl.waveNumber = 0 => (ctl'.waveNumber = 1 /\ EnemyCount = 3)
                    /\ ctl.waveNumber = 5 => EnemyCount = 5]_vars

\* C13, amended: the count is taken from the wave number after the increment.  A wave
\* check made at night when the wave number is 0 sends wave 1 with 3 enemies; one made
\* when the wave number is 5 sends wave 6 with 6 enemies; the count is 5 for the checks
\* made when the wave number is 3 or 4, which send waves 4 and 5.
C13CountsAfterIncrement ==
    [][SendsWave => /\ ctl'.waveNumber = ctl.waveNumber + 1
                    /\ ctl.waveNumber = 0 => EnemyCount = 3
                    /\ ctl.waveNumber = 5 => EnemyCount = 6
                    /\ ctl.waveNumber \in {3, 4} => EnemyCount = 5]_vars

\* a wave check at wave number 5 has sent wave 6: with the 3, 4, 4, 5 and 5 spawns of
\* the waves before, 27 are pending
C13SixthWaveSent ==
    /\ obs.op = "wave"
    /\ ctl.waveNumber = 6
    /\ hist.nightWaves > 0
    /\ Len(timers.spawn) = 3 + 4 + 4 + 5 + 5 + 6

\* C14: between the clock turning to night and its turning back to day the wave number
\* goes up exactly once, however the wave checks and the frames interleave: never twice
\* in a night, and once in every night that has ended.
C14OncePerNight ==
    /\ hist.nightWaves <= 1
    /\ hist.endedWith \in {-1, 1}

----------------------------------------------------------------------------
(* The battle: a siege by two skeletons and a player who fights back.  Once a skeleton
   stands on the player, the player may turn to the left, where it stands (key a, held
   over a tick); once one is within reach of the weapon in hand, the player strikes
   when the weapon is ready and changes to the other weapon while it cools. *)

BattleMaxInputs == 6

BattleMaxSpawns == 2

BattleMaxWaits == 6

EnemyOnPlayer == \E i \in 1..Len(enemies) : checkCollision(enemies[i], player)

EnemyInReach == \E i \in 1..Len(enemies) : checkCollision(attackArea(player), enemies[i])

WeaponReady == getCurrentWeapon(player).lastUsed <= 0

\* Punctual, with the spawns that are let through counted up to a limit
PunctualUpTo(spawns) ==
    /\ timers.ticks > 0
    /\ \A i \in DOMAIN timers.wave : timers.wave[i] > now
    /\ IF timers.spawn = << >> THEN TRUE
       ELSE Head(timers.spawn) > now \/ (~ctl.gameOver /\ enemyCounter >= spawns)
    /\ engine.isRunning => engine.lastFrameTime = now

\* the start button is there until it is clicked: start() is called once
StartButtonShown == timers.wave = << >>

NextBattle ==
    \/ StartButtonShown /\ Start(SiegeMaxStarts)
    \/ PunctualUpTo(BattleMaxSpawns) /\ TimePasses(SiegeStep, BattleMaxWaits)
    \/ Frame
    \/ \E i \in DOMAIN timers.wave : WaveTimer(i)
    \/ SimulationTick
    \/ \E c \in SiegeSpawnChoices : SpawnTimer(c, BattleMaxSpawns)
    \/ EnemyOnPlayer /\ player.direction = "right" /\ KeyDown("a", BattleMaxInputs)
    \/ KeyUp("a", BattleMaxInputs)
    \/ EnemyInReach /\ WeaponReady /\ KeyPress(" ", BattleMaxInputs)
    \/ EnemyInReach /\ ~WeaponReady /\ KeyPress("e", BattleMaxInputs)

SpecBattle == Init /\ [][NextBattle]_vars

\* a step in which the player strikes: the attack key, and the weapon was ready
PlayerStrikes == obs'.op = "keypress" /\ obs'.key = " " /\ obs'.ret /\ player' # player

\* C15: takeDamage(d) leaves max(0, health - d) and reports death exactly when that is 0,
\* and an enemy whose death an attack reports leaves the active-enemy list and the
\* entity registry in that same step.  So in every step an enemy either stays in both
\* collections with health above zero or leaves both, and an enemy within the attack
\* area of a strike with damage d is left alone, or has health - d > 0 afterwards, or
\* had health <= d and is gone.
C15KilledEnemiesRemoved ==
    [][ \A i \in 1..Len(enemies) :
          LET e == enemies[i]
              d == getCurrentWeapon(player).damage
              left == {j \in 1..Len(enemies') : enemies'[j].id = e.id}
              struck == PlayerStrikes /\ checkCollision(attackArea(player), e)
              byGuard == obs'.op = "tick" /\ guards # << >>
          IN  IF left = {}
              THEN /\ e.id \notin gameObjects'
                   /\ (struck /\ e.health <= d) \/ byGuard
              ELSE /\ e.id \in gameObjects'
                   /\ \A j \in left :
                         LET h == enemies'[j].health
                         IN  /\ h > 0
                             /\ \/ h = e.health
                                \/ struck /\ h = e.health - d
                                \/ byGuard /\ h < e.health ]_vars

\* a strike has just killed an enemy: it is in neither collection and its reward is paid
C15EnemyKilled ==
    /\ obs.op = "keypress" /\ obs.key = " " /\ obs.ret
    /\ obs.note = "coins from defeated enemy"
    /\ Len(enemies) < enemyCounter
    /\ Cardinality({id \in gameObjects : id[1] = "enemy"}) < enemyCounter

\* C16: in every reachable state the enemies of the active-enemy list are exactly the
\* enemy entities of the registry, and none is in the list twice.
C16EnemiesRegistered ==
    /\ {enemies[i].id : i \in 1..Len(enemies)} = {id \in gameObjects : id[1] = "enemy"}
    /\ \A i, j \in 1..Len(enemies) : enemies[i].id = enemies[j].id => i = j

\* of two enemies that were spawned, one has been killed and one is left in both collections
C16OneOfTwoLeft ==
    /\ enemyCounter = 2
    /\ Len(enemies) = 1
    /\ enemies[1].id \in gameObjects
    /\ Cardinality(gameObjects) = 2

----------------------------------------------------------------------------
(* The player's ranges *)

\* C17: in every reachable state 0 <= health <= maxHealth, coins >= 0, currentWeapon is
\* an index into the weapons and selectedBuildingIndex an index into the building
\* catalogue, whatever the sequence of damage, healing, purchases, rewards, weapon
\* switches and building selections.
C17PlayerInRange ==
    /\ 0 <= player.health
    /\ player.health <= player.maxHealth
    /\ player.coins >= 0
    /\ player.currentWeapon \in 0..(Len(player.weapons) - 1)
    /\ player.selectedBuildingIndex \in 0..(Len(BuildingCatalog) - 1)

\* a blow of more than the player's whole health has left health 0, not less, with the
\* last weapon in hand, the last building selected and coins spent before
C17KnockedOut ==
    /\ obs.op = "takeDamage"
    /\ obs.arg > player.maxHealth
    /\ obs.ret
    /\ player.health = 0
    /\ player.coins < StartingCoins
    /\ player.currentWeapon = Len(player.weapons) - 1
    /\ player.selectedBuildingIndex = Len(BuildingCatalog) - 1

----------------------------------------------------------------------------
(* The raid: a night in which each of three skeletons walks up to the village centre,
   the first house or the player, and strikes until its target is gone *)

RaidMaxWaits == 14

RaidMaxSpawns == 3

\* the top edge, at places four and three steps of two seconds from the centre of the
\* target: the village centre (position 1) and the first house (position 2); or the
\* player, as in the siege
RaidSpawnChoices ==
    { [edge |-> 0, along |-> Px(77), kind |-> 2, targetBuilding |-> TRUE, building |-> 1],
      [edge |-> 0, along |-> Px(71), kind |-> 2, targetBuilding |-> TRUE, building |-> 2] }
    \cup SiegeSpawnChoices

NextRaid ==
    \/ StartButtonShown /\ Start(SiegeMaxStarts)
    \/ PunctualUpTo(RaidMaxSpawns) /\ TimePasses(SiegeStep, RaidMaxWaits)
    \/ Frame
    \/ \E i \in DOMAIN timers.wave : WaveTimer(i)
    \/ SimulationTick
    \/ \E c \in RaidSpawnChoices : SpawnTimer(c, RaidMaxSpawns)

SpecRaid == Init /\ [][NextRaid]_vars

\* the buildings the game begins with
InitialBuildings == NewController(variant).buildings

\* building b is what becomes, in a step, of the building a: the same building, no stronger
Weakened(a, b) ==
    /\ << b.id, b.name, b.type, b.x, b.y, b.width, b.height >>
          = << a.id, a.name, a.type, a.x, a.y, a.width, a.height >>
    /\ b.health <= a.health

\* C18: in every state every building of the list has health above zero and at most
\* the health it was created with; no step raises a building's health, and a building
\* whose health is brought to zero or below is not in the list after that step.
C18BuildingsOnlyWeaken ==
    [][LET initial == InitialBuildings
       IN  \A j \in 1..Len(buildings') :
             /\ buildings'[j].health > 0
             /\ \A i \in 1..Len(initial) :
                   buildings'[j].id = initial[i].id
                   => buildings'[j].health <= initial[i].health
             /\ \/ \E i \in 1..Len(buildings) : Weakened(buildings[i], buildings'[j])
                \/ /\ obs'.op = "click"
                   /\ j = Len(buildings')
                   /\ Len(buildings') = Len(buildings) + 1
      ]_vars

\* a tick has destroyed a house, and the village centre stands damaged
C18HouseGoneCentreDamaged ==
    /\ obs.op = "tick"
    /\ \A j \in 1..Len(buildings) : buildings[j].id # << "house", 0 >>
    /\ \E j \in 1..Len(buildings) :
          buildings[j].type = "main" /\ buildings[j].health < InitialBuildings[1].health

\* the number of village centres in a building list
Centres(bs) == Cardinality({j \in 1..Len(bs) : bs[j].type = "main"})

\* C19: in a tick of a game that is not over, the player's health coming to 0 ends the
\* game; a building whose health comes to 0 or below leaves the list, and the game ends
\* if it was a village centre ('main'); the game ends in a tick for no other reason, so
\* the destruction of any other building does not set gameOver.
C19LossDetection ==
    [][(obs'.op = "tick" /\ ~ctl.gameOver)
        => LET died == player.health > 0 /\ player'.health = 0
               centreLost == Centres(buildings') < Centres(buildings)
           IN  /\ died => ctl'.gameOver
               /\ centreLost => ctl'.gameOver
               /\ ctl'.gameOver => (died \/ centreLost \/ getVillageHealth(engine') <= 0)
               /\ \A j \in 1..Len(buildings') : buildings'[j].health > 0 ]_vars

\* a tick has destroyed the first house: the game goes on
C19HouseDestroyed ==
    /\ obs.op = "tick"
    /\ obs.note = "building destroyed"
    /\ Len(buildings) < Len(InitialBuildings)
    /\ Centres(buildings) = Centres(InitialBuildings)
    /\ player.health > 0
    /\ ~ctl.gameOver

----------------------------------------------------------------------------
(* The outpost: the battle, won with the sword, and a player who builds a guard post
   with the rewards.  The post costs 60 coins and the game begins with 50, so the
   player opens build mode, selects and clicks once the coins are there. *)

OutpostMaxInputs == 8

GuardPost == BuildingCatalog[Len(BuildingCatalog)]

CanPayPost == player.coins >= GuardPost.cost

OutpostKeys == {"b", "q"}

NextOutpost ==
    \/ StartButtonShown /\ Start(SiegeMaxStarts)
    \/ PunctualUpTo(BattleMaxSpawns) /\ TimePasses(SiegeStep, BattleMaxWaits)
    \/ Frame
    \/ \E i \in DOMAIN timers.wave : WaveTimer(i)
    \/ SimulationTick
    \/ \E c \in SiegeSpawnChoices : SpawnTimer(c, BattleMaxSpawns)
    \/ EnemyOnPlayer /\ player.direction = "right" /\ KeyDown("a", OutpostMaxInputs)
    \/ KeyUp("a", OutpostMaxInputs)
    \/ EnemyInReach /\ WeaponReady /\ KeyPress(" ", OutpostMaxInputs)
    \/ \E k \in OutpostKeys : CanPayPost /\ KeyPress(k, OutpostMaxInputs)
    \/ CanPayPost /\ Click(OutpostMaxInputs)

SpecOutpost == Init /\ [][NextOutpost]_vars

\* a guard post stands: a building made from the Guard Post template is in the list
GuardPostStands == \E j \in 1..Len(buildings) : buildings[j].name = GuardPost.name

\* C20: after the player has placed the Guard Post template, a guard is eventually
\* created, two seconds later, and added to the guard list and the entity registry.  So
\* while a guard post stands, its guard is there, in both collections, or the timeout
\* that creates it is pending.
C20GuardOnTheWay ==
    GuardPostStands
    => \/ timers.guard # << >>
       \/ \E k \in 1..Len(guards) : guards[k].id \in gameObjects

----------------------------------------------------------------------------
(* The halt: the siege, with stop() called at any moment while the engine runs (the
   game component is taken off the page).  The intervals and timeouts of the page go on. *)

HaltMaxWaits == 6

HaltMaxSpawns == 4

NextHalt ==
    \/ StartButtonShown /\ Start(SiegeMaxStarts)
    \/ engine.isRunning /\ Stop
    \/ PunctualUpTo(HaltMaxSpawns) /\ TimePasses(SiegeStep, HaltMaxWaits)
    \/ Frame
    \/ \E i \in DOMAIN timers.wave : WaveTimer(i)
    \/ SimulationTick
    \/ \E c \in SiegeSpawnChoices : SpawnTimer(c, HaltMaxSpawns)

SpecHalt == Init /\ [][NextHalt]_vars

\* a step in which a spawn timeout fires
SpawnStep == obs'.op = "spawn" /\ Len(timers'.spawn) < Len(timers.spawn)

\* C21: stop() does not cancel the spawn timeouts.  stop() leaves every pending timer as
\* it was, a pending spawn timeout goes only by firing, and one that fires while the
\* game is not over adds a new enemy to the enemy list and to the entity registry,
\* also when the engine's frame loop is halted.
C21SpawnsSurviveStop ==
    [][ /\ obs'.op = "stop" => timers' = timers
        /\ Len(timers'.spawn) < Len(timers.spawn)
            => (SpawnStep /\ timers'.spawn = Tail(timers.spawn))
        /\ (SpawnStep /\ ~ctl.gameOver)
            => /\ Len(enemies') = Len(enemies) + 1
               /\ SubSeq(enemies', 1, Len(enemies)) = enemies
               /\ enemies'[Len(enemies')].id \notin gameObjects
               /\ gameObjects' = gameObjects \cup {enemies'[Len(enemies')].id} ]_vars

\* stop() was called while the three spawn timeouts of the first wave were pending, and
\* the last of them has fired: the engine is halted, the game is not over, and the
\* third enemy is in the list and the registry
C21SpawnedWhileHalted ==
    /\ obs.op = "spawn"
    /\ hist.pendingAtStop = 3
    /\ ctl.waveNumber = 1
    /\ timers.spawn = << >>
    /\ enemyCounter = 3
    /\ ~engine.isRunning
    /\ ~ctl.gameOver
    /\ enemies # << >>
    /\ enemies[Len(enemies)].id \in gameObjects
    /\ enemies[Len(enemies)].id = << "enemy", enemyCounter - 1 >>

----------------------------------------------------------------------------
(* The mending: the siege by one skeleton, and a player who heals (key h) at any moment *)

MendMaxInputs == 3

MendMaxWaits == 8

MendMaxSpawns == 1

NextMend ==
    \/ StartButtonShown /\ Start(SiegeMaxStarts)
    \/ PunctualUpTo(MendMaxSpawns) /\ TimePasses(SiegeStep, MendMaxWaits)
    \/ Frame
    \/ \E i \in DOMAIN timers.wave : WaveTimer(i)
    \/ SimulationTick
    \/ \E c \in SiegeSpawnChoices : SpawnTimer(c, MendMaxSpawns)
    \/ KeyPress("h", MendMaxInputs)

SpecMend == Init /\ [][NextMend]_vars

\* a step in which the key k is struck
KeyStep(k) == obs'.op = "keypress" /\ obs'.key = k /\ budget'.inputs = budget.inputs + 1

\* C22: the heal key of the cursor controller, struck with 20 coins or more, takes
\* exactly 20 coins and sets health to min(maxHealth, health + 25); nothing else of the
\* player and nothing of the world changes.
C22HealEffect ==
    [][(KeyStep("h") /\ variant = "cursor" /\ player.coins >= HealCost)
        => /\ player' = [player EXCEPT !.coins = player.coins - 20,
                                       !.health = Min(player.maxHealth, player.health + 25)]
           /\ << engine', buildings', gameObjects', enemies', guards', ctl', timers',
                 enemyCounter', now' >>
                = << engine, buildings, gameObjects, enemies, guards, ctl, timers,
                     enemyCounter, now >> ]_vars

\* the player has healed twice: the second time from 75 or less, so that health is
\* still below maxHealth, and 10 coins are left
C22HealedBelowMax ==
    /\ obs.op = "keypress" /\ obs.key = "h"
    /\ obs.note = "Healed"
    /\ player.health < player.maxHealth
    /\ player.health > HealAmount
    /\ player.coins = StartingCoins - 2 * HealCost

----------------------------------------------------------------------------
(* Rewards *)

RECURSIVE RewardsFrom(_, _, _)
\* the rewards of the enemies of the list es, from position i on, that are not in registry
RewardsFrom(es, registry, i) ==
    IF i > Len(es) THEN 0
    ELSE (IF es[i].id \in registry THEN 0 ELSE getReward(es[i]))
         + RewardsFrom(es, registry, i + 1)

\* C23: a strike of the player raises the coins by exactly the fixed rewards of the
\* enemies it kills, once for each; a strike that kills none, though it may wound,
\* leaves the coins as they were.
C23KillsPayReward ==
    [][PlayerStrikes => player'.coins = player.coins + RewardsFrom(enemies, gameObjects', 1)]_vars

----------------------------------------------------------------------------
(* The mill: the first minute of a day, in which no wave check is due yet.  The player
   builds a resource building with the 50 coins of the beginning; frames come five
   seconds apart. *)

MillMaxWaits == 4

MillMaxInputs == 4

\* five seconds go by in one step, half the interval of a resource building
MillStep == ResourceInterval \div 2

MillKeys == {"b", "r"}

NextMill ==
    \/ StartButtonShown /\ Start(SiegeMaxStarts)
    \/ WaveChecksDone /\ TimePasses(MillStep, MillMaxWaits)
    \/ Frame
    \/ SimulationTick
    \/ \E k \in MillKeys : KeyPress(k, MillMaxInputs)
    \/ Click(MillMaxInputs)

SpecMill == Init /\ [][NextMill]_vars

\* a resource building with a generation timer
Timed(b) == b.type = "resource" /\ b.hasTimer

----------------------------------------------------------------------------
(* The horde: nights in a foreground tab, with the spawn timeouts that the waves set.
   No time goes by while a wave check or the frame of a running engine is due; a spawn
   timeout fires when it is due or later, and draws any type of the pool for the wave
   number of that moment; the enemy enters at the top edge and makes for the player. *)

HordeMaxWaits == 6

HordeMaxSpawns == 1

HordeSpawnChoices ==
    { [edge |-> 0, along |-> Px(106), kind |-> k, targetBuilding |-> FALSE, building |-> 1] :
        k \in 1..Len(enemyTypes(variant, ctl.waveNumber)) }

\* the wave checks and the frame are up to date
Foreground == WaveChecksDone /\ (engine.isRunning => engine.lastFrameTime = now)

NextHorde ==
    \/ StartButtonShown /\ Start(MaxStarts)
    \/ Foreground /\ TimePasses(CycleDuration, HordeMaxWaits)
    \/ Frame
    \/ \E i \in DOMAIN timers.wave : WaveTimer(i)
    \/ SimulationTick
    \/ \E c \in HordeSpawnChoices : SpawnTimer(c, HordeMaxSpawns)

SpecHorde == Init /\ [][NextHorde]_vars

\* the pool of enemy types for the wave number w
Pool(w) ==
    {"zombie", "skeleton"}
    \cup (IF w >= 2 THEN {"ghost", "bat"} ELSE {})
    \cup (IF w >= 4 THEN {"slime"} ELSE {})
    \cup (IF w >= 6 THEN {"dragon"} ELSE {})

\* the types spawnEnemy draws from at the wave number w
Drawn(w) == LET types == enemyTypes(variant, w) IN {types[k] : k \in 1..Len(types)}

\* C25: every enemy spawned while the wave number is w has a type of the pool for w:
\* zombie and skeleton, with ghost and bat from w = 2, slime from w = 4 and dragon from
\* w = 6; the pool for a larger wave number contains the pool for a smaller one.
C25TypesByWave ==
    [][(SpawnStep /\ ~ctl.gameOver)
        => /\ enemies'[Len(enemies')].kind \in Pool(ctl.waveNumber)
           /\ Drawn(ctl.waveNumber) = Pool(ctl.waveNumber)
           /\ \A w \in 0..ctl.waveNumber : Drawn(w) \subseteq Drawn(ctl.waveNumber)]_vars

----------------------------------------------------------------------------
(* The chase: a night in which a skeleton makes for the first house or for the player,
   and a player who steps to the right (key d, held over ticks) once it is there *)

ChaseMaxWaits == 18

ChaseMaxSpawns == 1

ChaseMaxInputs == 2

\* the top edge; the target is the first house (position 2 of the list) or the player
ChaseSpawnChoices ==
    { [edge |-> 0, along |-> Px(71), kind |-> 2, targetBuilding |-> TRUE, building |-> 2] }
    \cup SiegeSpawnChoices

NextChase ==
    \/ StartButtonShown /\ Start(SiegeMaxStarts)
    \/ PunctualUpTo(ChaseMaxSpawns) /\ TimePasses(SiegeStep, ChaseMaxWaits)
    \/ Frame
    \/ \E i \in DOMAIN timers.wave : WaveTimer(i)
    \/ SimulationTick
    \/ \E c \in ChaseSpawnChoices : SpawnTimer(c, ChaseMaxSpawns)
    \/ EnemyOnPlayer /\ KeyDown("d", ChaseMaxInputs)
    \/ KeyUp("d", ChaseMaxInputs)

SpecChase == Init /\ [][NextChase]_vars

\* the centre of a rectangle
Centre(r) == [x |-> r.x + r.width \div 2, y |-> r.y + r.height \div 2]

\* C26: the target of an enemy is set once, when it is spawned: to the centre of a
\* building that is in the list at that moment or to the position of the player at that
\* moment, and to the latter when the list is empty.  No later step changes the target
\* of an enemy: not the player's moving, not the destruction of the building, no tick
\* and no frame.
C26TargetFixedAtSpawn ==
    [][ /\ (SpawnStep /\ ~ctl.gameOver)
            => LET e == enemies'[Len(enemies')]
                   atPlayer == e.target = [x |-> player.x, y |-> player.y]
               IN  /\ e.hasTarget
                   /\ \/ atPlayer
                      \/ \E j \in 1..Len(buildings) : e.target = Centre(buildings[j])
                   /\ buildings = << >> => atPlayer
        /\ \A i \in 1..Len(enemies), j \in 1..Len(enemies') :
              enemies'[j].id = enemies[i].id
              => /\ enemies'[j].hasTarget = enemies[i].hasTarget
                 /\ enemies'[j].target = enemies[i].target ]_vars

\* the house an enemy was sent against is destroyed and the enemy's target is still
\* where the house stood
C26TargetOutlivesHouse ==
    /\ obs.op = "tick"
    /\ \A j \in 1..Len(buildings) : buildings[j].id # << "house", 0 >>
    /\ \E i \in 1..Len(enemies) :
          /\ enemies[i].hasTarget
          /\ enemies[i].target = Centre(InitialBuildings[2])

\* the player has stepped away from the place an enemy was sent to, and the enemy's
\* target is still that place
C26TargetLeftBehind ==
    /\ obs.op = "tick"
    /\ player.x > NewController(variant).player.x
    /\ \E i \in 1..Len(enemies) :
          /\ enemies[i].hasTarget
          /\ enemies[i].target = [x |-> NewController(variant).player.x, y |-> player.y]

----------------------------------------------------------------------------
(* The stalking: the siege by one skeleton, watched stroke by stroke.  Once the
   skeleton stands on the player the frames come half a second apart; the 60 Hz
   interval is punctual, so no time goes by while an enemy is ready to strike. *)

StalkMaxWaits == 34

StalkMaxSpawns == 1

\* half the cooldown of an enemy goes by between two frames of the fight
StalkStep == IF EnemyOnPlayer /\ ~ctl.gameOver THEN EnemyAttackCooldown \div 2 ELSE SiegeStep

\* GameController.start(): gameLoop(0) updates by the delta 0 - lastFrameTime
StalkStart ==
    /\ StartButtonShown
    /\ budget.starts < SiegeMaxStarts
    /\ Commit(start(Begin("start", "", 0)))
    /\ budget' = [budget EXCEPT !.starts = budget.starts + 1]
    /\ hist' = Elapsed(hist, 0 - engine.lastFrameTime)
    /\ UNCHANGED now

\* one requestAnimationFrame callback
StalkFrame ==
    LET s == gameLoop([Begin("frame", "", 0) EXCEPT !.timers.raf = timers.raf - 1], now)
    IN  /\ timers.raf > 0
        /\ Commit(s)
        /\ hist' = Elapsed(Watched(s), IF engine.isRunning THEN now - engine.lastFrameTime ELSE 0)
        /\ UNCHANGED << now, budget >>

\* a 60 Hz interval fires
StalkTick ==
    /\ timers.ticks > 0
    /\ Commit(simulationTick(Begin("tick", "", 0)))
    /\ hist' = Struck(hist)
    /\ UNCHANGED << now, budget >>

NextStalk ==
    \/ StalkStart
    \/ PunctualUpTo(StalkMaxSpawns) /\ Strikers = {} /\ TimePasses(StalkStep, StalkMaxWaits)
    \/ StalkFrame
    \/ \E i \in DOMAIN timers.wave : WaveTimer(i)
    \/ StalkTick
    \/ \E c \in SiegeSpawnChoices : SpawnTimer(c, StalkMaxSpawns)

SpecStalk == Init /\ [][NextStalk]_vars

\* a step that is a tick of a game that is not over
TickStep == hist'.tock # hist.tock /\ ~ctl.gameOver

RECURSIVE DamageFrom(_, _)
\* the damage of the enemies from position i on that stand on the player with their
\* cooldown run out
DamageFrom(es, i) ==
    IF i > Len(es) THEN 0
    ELSE (IF checkCollision(es[i], player) /\ es[i].attackCooldown <= 0 THEN es[i].damage ELSE 0)
         + DamageFrom(es, i + 1)

C27StruckDown ==
    /\ obs.op = "tick"
    /\ player.health = 0
    /\ ctl.gameOver

----------------------------------------------------------------------------
(* The watch: the siege with guards.  No template of the catalogue has the type
   'guard-post' (C20), so placeBuilding never schedules its guard callback; here the
   callback runs unscheduled, for a post at a drawn place, so that updateGuards has
   guards to update.  Ticks come 60 times a second: time passes only when no enemy
   and no guard has a stroke due. *)

WatchMaxGuards == 1

WatchMaxSpawns == 2

WatchMaxWaits == 16

\* where the guards stand: 90 pixels from the upper edge's spawn line, and by the player
WatchPosts == { [x |-> Px(200), y |-> Px(40)],
                [x |-> Px(CanvasWidth \div 2), y |-> Px(CanvasHeight \div 2 + 20)] }

\* skeletons that make for the player from the upper edge: one 90 pixels from the
\* first post, one 150 pixels from it
WatchSpawnChoices ==
    { [edge |-> 0, along |-> Px(a), kind |-> 2, targetBuilding |-> FALSE, building |-> 1] :
        a \in {200, 80} }

WatchStep == IF engine.cycle = "day" \/ ctl.gameOver THEN CycleDuration
             ELSE EnemyAttackCooldown

\* the callback of the guard-post timeout of placeBuilding runs
GuardTimer(t, limit) ==
    /\ variant = "cursor"
    /\ timers.wave # << >>
    /\ now = 0
    /\ Len(guards) < limit
    /\ Commit(guardTimeout(Begin("guard", "", 0), t))
    /\ UNCHANGED << now, hist, budget >>

\* the squared distance updateGuards measures between guard g and enemy e
Dist2(g, e) == (e.x - g.x) * (e.x - g.x) + (e.y - g.y) * (e.y - g.y)

\* the positions in the list es of the enemies strictly within the range of guard g
InRange(g, es) == {i \in 1..Len(es) : Dist2(g, es[i]) < g.range * g.range}

\* a guard has a stroke due: its cooldown has run out and an enemy is in its range
GuardsReady ==
    /\ ~ctl.gameOver
    /\ \E k \in 1..Len(guards) :
          guards[k].attackCooldown <= 0 /\ InRange(guards[k], enemies) # {}

NextWatch ==
    \/ StartButtonShown /\ Start(SiegeMaxStarts)
    \/ \E t \in WatchPosts : GuardTimer(t, WatchMaxGuards)
    \/ /\ PunctualUpTo(WatchMaxSpawns)
       /\ Strikers = {}
       /\ ~GuardsReady
       /\ TimePasses(WatchStep, WatchMaxWaits)
    \/ Frame
    \/ \E i \in DOMAIN timers.wave : WaveTimer(i)
    \/ SimulationTick
    \/ \E c \in WatchSpawnChoices : SpawnTimer(c, WatchMaxSpawns)

SpecWatch == Init /\ [][NextWatch]_vars

\* the nearest of the enemies in the range of guard g, the earliest in the list of
\* those equally near
Nearest(g, es) ==
    CHOOSE i \in InRange(g, es) :
        \A j \in InRange(g, es) :
            \/ Dist2(g, es[i]) < Dist2(g, es[j])
            \/ Dist2(g, es[i]) = Dist2(g, es[j]) /\ i <= j

\* what the guards see and change of an enemy
Seen(es) == [i \in 1..Len(es) |-> [id |-> es[i].id, x |-> es[i].x, y |-> es[i].y,
                                     health |-> es[i].health]]

RECURSIVE Watching(_, _, _)
\* the guards from position k on take their turns: each aims at its nearest enemy in
\* range, and strikes it if its cooldown has run out
Watching(gs, foes, k) ==
    IF k > Len(gs) THEN [guards |-> gs, foes |-> foes]
    ELSE IF InRange(gs[k], foes) = {} THEN Watching(gs, foes, k + 1)
    ELSE LET n == Nearest(gs[k], foes)
             ready == gs[k].attackCooldown <= 0
             aimed == [gs[k] EXCEPT !.hasTarget = TRUE,
                                    !.targetEnemy = foes[n].id,
                                    !.attackCooldown = IF ready THEN GuardAttackCooldown
                                                       ELSE gs[k].attackCooldown]
             left == foes[n].health - gs[k].damage
             after == IF ~ready THEN foes
                      ELSE IF left <= 0 THEN RemoveAt(foes, n)
                      ELSE [foes EXCEPT ![n].health = left]
         IN  Watching([gs EXCEPT ![k] = aimed], after, k + 1)

\* C28: in a tick of a game that is not over every guard of the list, in list order,
\* takes for target the enemy nearest to it (Euclidean distance) among those strictly
\* nearer than its range, the earliest in the enemy list of those equally near; if the
\* guard's cooldown has run out that enemy takes the guard's damage (and leaves the list
\* when its health comes to 0) and the cooldown is set to 1.5 seconds; a guard with no
\* enemy in range, or whose cooldown has not run out, damages no enemy.
C28GuardsStrikeNearest ==
    [][(obs'.op = "tick" /\ now' = now /\ ~ctl.gameOver /\ variant = "cursor")
        => LET out == Watching(guards, Seen(enemies), 1)
           IN  /\ guards' = out.guards
               /\ Seen(enemies') = out.foes ]_vars

\* the guard has struck the earlier of two enemies that are equally near
C28StruckEarliestOfTwo ==
    /\ obs.op = "tick"
    /\ Len(guards) = 1
    /\ Len(enemies) = 2
    /\ Dist2(guards[1], enemies[1]) = Dist2(guards[1], enemies[2])
    /\ guards[1].hasTarget
    /\ guards[1].targetEnemy = enemies[1].id
    /\ guards[1].attackCooldown = GuardAttackCooldown
    /\ enemies[1].health < enemies[2].health

\* an enemy stands exactly 150 pixels from the guard, whose cooldown has run out, and
\* is unharmed and not the target after the tick
C28AtRangeLeftAlone ==
    /\ obs.op = "tick"
    /\ Len(guards) = 1
    /\ guards[1].attackCooldown <= 0
    /\ \E i \in 1..Len(enemies) :
          /\ Dist2(guards[1], enemies[i]) = guards[1].range * guards[1].range
          /\ enemies[i].health = enemies[i].maxHealth
    /\ ~guards[1].hasTarget

\* a guard's stroke has killed an enemy
C28Killed ==
    /\ obs.op = "tick"
    /\ Len(guards) = 1
    /\ guards[1].attackCooldown = GuardAttackCooldown
    /\ enemyCounter = 2
    /\ Len(enemies) = 1
    /\ ~ctl.gameOver

----------------------------------------------------------------------------
(* The cursors of the Player object: the weapon in hand and the selected template *)

\* a step that is a call of the Player method named
Calls(op) == obs'.op = op /\ budget'.calls # budget.calls

RECURSIVE switchWeaponTimes(_, _)
\* switchWeapon() applied n times
switchWeaponTimes(p, n) ==
    IF n = 0 THEN p ELSE switchWeaponTimes(switchWeapon(p), n - 1)

\* the three round trips bring player p back to where it was
RoundTrips(p) ==
    /\ switchWeaponTimes(p, Len(p.weapons)) = p
    /\ previousBuilding(nextBuilding(p)) = p
    /\ nextBuilding(previousBuilding(p)) = p

\* C29: switchWeapon() sets currentWeapon to (currentWeapon + 1) mod weapons.length and
\* nothing else, so weapons.length calls bring the weapon in hand back; nextBuilding()
\* and previousBuilding() move the selected index by +1 and by -1 modulo the size of the
\* catalogue and change nothing else, and each undoes the other from every index.
C29CursorsCycle ==
    [][ LET weapons == Len(player.weapons)
            size == Len(BuildingCatalog)
        IN  /\ RoundTrips(player) /\ RoundTrips(player')
            /\ Calls("switchWeapon")
                => player' = [player EXCEPT !.currentWeapon =
                                 IF player.currentWeapon = weapons - 1 THEN 0
                                 ELSE player.currentWeapon + 1]
            /\ Calls("nextBuilding")
                => player' = [player EXCEPT !.selectedBuildingIndex =
                                 IF player.selectedBuildingIndex = size - 1 THEN 0
                                 ELSE player.selectedBuildingIndex + 1]
            /\ Calls("previousBuilding")
                => player' = [player EXCEPT !.selectedBuildingIndex =
                                 IF player.selectedBuildingIndex = 0 THEN size - 1
                                 ELSE player.selectedBuildingIndex - 1] ]_vars

\* both cursors have wrapped: switchWeapon() has brought the first weapon back, and
\* previousBuilding() was called with the first template selected
C29BothWrapped ==
    /\ obs.op = "switchWeapon"
    /\ player.currentWeapon = 0
    /\ player.selectedBuildingIndex = Len(BuildingCatalog) - 1
    /\ budget.calls = Len(player.weapons) + 1

\* nextBuilding() has gone round the whole catalogue
C29RoundTheCatalogue ==
    /\ obs.op = "nextBuilding"
    /\ player.selectedBuildingIndex = 0
    /\ budget.calls = Len(BuildingCatalog)

----------------------------------------------------------------------------
(* The village's health *)

\* C30: the engine's villageHealth is 100 in every reachable state: nothing that start(),
\* an input event or a timer runs takes from it, so the test of checkVillageStatus,
\* made in every tick, never ends the game with 'Village health depleted'.
C30VillageHealthFull ==
    /\ getVillageHealth(engine) = 100
    /\ \A i \in DOMAIN obs.losses : obs.losses[i] # HealthDepleted
    /\ \A i \in DOMAIN obs.toasts : obs.toasts[i] # HealthDepleted

\* the village centre has been destroyed and the game lost by it, with the player
\* alive, and the village's health is what it was
C30VillageRazedHealthFull ==
    /\ obs.op = "tick"
    /\ ctl.gameOver
    /\ obs.losses = << CenterDestroyed >>
    /\ Centres(buildings) = 0
    /\ player.health > 0
    /\ getVillageHealth(engine) = 100

\* the player has been struck down with every building standing: the game is lost,
\* not by the village's health
C30PlayerLostHealthFull ==
    /\ obs.op = "tick"
    /\ ctl.gameOver
    /\ obs.losses = << PlayerDied >>
    /\ getVillageHealth(engine) = 100

----------------------------------------------------------------------------
(* The sweep of an attack *)

\* C31: a successful attack of the player takes the damage of the weapon in hand, once,
\* from every enemy of the list whose rectangle overlaps the attack area at the moment
\* of the attack: each of them has that much less health after the step, or had no
\* more than that and is gone, also when another of them is killed by the same attack.
C31AttackHitsAllInArea ==
    [][PlayerStrikes
        => \A i \in 1..Len(enemies) :
              LET e == enemies[i]
                  d == getCurrentWeapon(player).damage
                  left == {j \in 1..Len(enemies') : enemies'[j].id = e.id}
              IN  checkCollision(attackArea(player), e)
                  => IF e.health <= d THEN left = {}
                     ELSE \A j \in left : enemies'[j].health = e.health - d ]_vars

----------------------------------------------------------------------------
(* Input while the game is not running *)

\* a step that is a key or click event
InputStep == obs'.op \in {"keydown", "keypress", "click"} /\ budget'.inputs # budget.inputs

\* C32: key and click input changes the game only while the controller is running:
\* before start() and after the game is over, an attack, heal or placement input
\* leaves the player's coins and health, the building list and the enemy list as
\* they were.
C32InputInertUnlessRunning ==
    [][(InputStep /\ (StartButtonShown \/ ctl.gameOver))
        => /\ player'.coins = player.coins
           /\ player'.health = player.health
           /\ buildings' = buildings
           /\ enemies' = enemies ]_vars

----------------------------------------------------------------------------
(* The timers of start() *)

\* C33: whatever the number of calls of start(), with or without stop() between them,
\* at most one wave-check timer and at most one 60 Hz tick timer are active, so that
\* one wave interval gone by at night raises waveNumber by at most 1.
C33OneTimerOfEachKind ==
    /\ Len(timers.wave) <= 1
    /\ timers.ticks <= 1
    /\ ctl.waveNumber * WaveInterval <= now

\* after start() was called twice, the first wave interval has gone by and waveNumber is 2
C33TwoWavesInOneInterval ==
    /\ now = WaveInterval
    /\ Len(timers.wave) = 2
    /\ ctl.waveNumber = 2

----------------------------------------------------------------------------
(* The frame loop: start() and stop() called at any moment, among the frame callbacks
   and the passing of time *)

LoopMaxStarts == 2

LoopMaxWaits == 4

NextLoop ==
    \/ Start(LoopMaxStarts)
    \/ engine.isRunning /\ Stop
    \/ TimePasses(MillStep, LoopMaxWaits)
    \/ Frame

SpecLoop == Init /\ [][NextLoop]_vars

\* C34: for any sequence of start() and stop() among the frame callbacks, at most one
\* callback of the frame loop is pending at any time, so that a display frame runs
\* update and render at most once, also when start() follows stop() before the pending
\* callback has fired.
C34OneFrameLoop == timers.raf <= 1

\* a step in which gameLoop runs update: a frame callback of a running engine, or the
\* start() of an engine that is not running
LoopRuns ==
    \/ obs'.op = "frame" /\ timers'.raf = timers.raf /\ engine.isRunning
    \/ obs'.op = "start" /\ budget'.starts # budget.starts /\ ~engine.isRunning

\* C35: every delta the frame loop passes to update is >= 0, whatever the sequence of
\* start(), stop() and frame callbacks with timestamps that do not decrease, a start()
\* after the loop has run and been stopped included; so the time of the day cycle never
\* goes below 0.
C35DeltaNotNegative ==
    [][ /\ LoopRuns => engine'.lastFrameTime - engine.lastFrameTime >= 0
        /\ engine'.cycleTime >= 0 ]_vars

----------------------------------------------------------------------------
(* One stroke for each enemy in a tick *)

\* the positions in the list bs of the buildings that the rectangle of enemy e overlaps
Under(e, bs) == {j \in 1..Len(bs) : checkCollision(e, bs[j])}

\* what an enemy's stroke changes of a building
Standing(bs) == [j \in 1..Len(bs) |-> [id |-> bs[j].id, health |-> bs[j].health]]

RECURSIVE Marauding(_, _, _, _)
\* the enemies from position i on take their turns: one whose cooldown has run out
\* strikes one target, the player if it stands on the player, else the first building
\* of the list that it overlaps
Marauding(es, health, bs, i) ==
    IF i > Len(es) THEN [health |-> health, bs |-> bs]
    ELSE LET e == es[i]
             under == Under(e, bs)
             first == CHOOSE j \in under : \A k \in under : j <= k
             left == bs[first].health - e.damage
         IN  IF e.attackCooldown > 0 THEN Marauding(es, health, bs, i + 1)
             ELSE IF checkCollision(e, player)
             THEN Marauding(es, Max(0, health - e.damage), bs, i + 1)
             ELSE IF under = {} THEN Marauding(es, health, bs, i + 1)
             ELSE Marauding(es, health,
                            IF left <= 0 THEN RemoveAt(bs, first)
                            ELSE [bs EXCEPT ![first].health = left],
                            i + 1)

\* C36: in a tick every enemy takes health from at most one target: one that strikes
\* the player strikes no building in that tick, and one that overlaps several buildings
\* strikes only the first of them in list order.
C36OneTargetPerEnemy ==
    [][(obs'.op = "tick" /\ now' = now /\ ~ctl.gameOver)
        => LET out == Marauding(enemies, player.health, buildings, 1)
           IN  /\ player'.health = out.health
               /\ Standing(buildings') = Standing(out.bs) ]_vars

\* an enemy that stands on the player and on a building has just struck: the player is
\* hurt and the building has the health it began with
C36PlayerNotBuilding ==
    /\ obs.op = "tick"
    /\ player.health < StartingHealth
    /\ \E i \in 1..Len(enemies) :
          /\ enemies[i].attackCooldown = EnemyAttackCooldown
          /\ checkCollision(enemies[i], player)
          /\ \E j \in Under(enemies[i], buildings) :
                \E k \in 1..Len(InitialBuildings) :
                    /\ InitialBuildings[k].id = buildings[j].id
                    /\ InitialBuildings[k].health = buildings[j].health

\* an enemy that overlaps two buildings has just struck: the first of them in the list
\* is damaged, the second has the health it began with
C36FirstBuildingOnly ==
    /\ obs.op = "tick"
    /\ \E i \in 1..Len(enemies) :
          /\ enemies[i].attackCooldown = EnemyAttackCooldown
          /\ ~checkCollision(enemies[i], player)
          /\ \E j, k \in Under(enemies[i], buildings) :
                /\ j < k
                /\ buildings[j].health < InitialBuildings[j].health
                /\ buildings[k].health = InitialBuildings[k].health

----------------------------------------------------------------------------
(* The building list *)

\* C37: in every reachable state no two buildings of the list have rectangles that
\* strictly overlap: the village centre and the houses the game begins with are apart
\* from each other, and every placement keeps it so.
C37BuildingsDisjoint ==
    \A i, j \in 1..Len(buildings) :
        i < j => ~checkCollision(buildings[i], buildings[j])

\* C38: once the controller is constructed the building list holds exactly one village
\* centre ('main') and the ids of its buildings are pairwise distinct, so that the
\* destruction of a 'main' building leaves no village centre in the list.
C38OneVillageCentre ==
    /\ Centres(buildings) = (IF \E i \in DOMAIN obs.losses : obs.losses[i] = CenterDestroyed
                             THEN 0 ELSE 1)
    /\ \A i, j \in 1..Len(buildings) : buildings[i].id = buildings[j].id => i = j

====
